---------------------------- MODULE Spec2Model ----------------------------
(***************************************************************************)
(* The translation engine of the ingress controller                        *)
(* (internal/dataplane/parser/translate.go): the five normalizers          *)
(* fromIngressV1, fromIngressV1beta1, fromTCPIngressV1beta1,               *)
(* fromUDPIngressV1beta1 and fromKnativeIngress, each a loop over a        *)
(* snapshot list that builds a map of proxy services with their routes.    *)
(*                                                                         *)
(* A call is modelled step by step: the in-place stable sort of the        *)
(* caller's list, the prelude of one iteration of the outer loop, one      *)
(* iteration of the innermost loop (one rule-path, or one L4 rule), and    *)
(* for the HTTP ingress kinds the default-backend block after the loops.   *)
(* Names are strings built with \o and ToString exactly as the code        *)
(* builds them with fmt.Sprintf; paths are sequences of one-character      *)
(* strings so that strings.Contains / Trim / TrimLeft can be computed.     *)
(***************************************************************************)
EXTENDS Integers, Sequences, FiniteSets, TLC

VARIABLES
    kind,               \* which normalizer is called: "v1" "v1beta1" "tcp" "udp" "knative"
    hashedRouteNames,   \* the naming-mode flag of the call
    ingressList,        \* the caller's slice (sort.SliceStable works in place)
    pc,                 \* "call" "ingress" "rules" "default" "done" "panic"
    k, i, j,            \* outer-loop index (1-based); rule and path index (1-based)
    services,           \* result.ServiceNameToServices
    secretNameToSNIs,   \* result.SecretNameToSNIs
    usedRouteNames,     \* the per-resource set usedRouteNames
    allDefaultBackends, \* the candidates collected by the HTTP ingress kinds
    translated,         \* history: the paths handed to pathsFromK8s in this call
    emitted,            \* history: one entry per route appended in this call
    snapshot,           \* history: the list as the caller passed it to the first call
    prev,               \* history: <<>>, or <<[services, emitted]>> of the previous call
    fn,                 \* the helper called on its own: "pathsFromK8s" "knativeSelectSplit"
    arg,                \* its arguments
    ret,                \* Nil until it returns, then Some(what it returns)
    fragments,          \* the fragments to merge, by the kind of their normalizer
    pending,            \* the kinds whose fragment is not merged yet
    merged,             \* the service map the fragments are merged into
    reconciler,         \* which of the generated reconcilers runs
    object,             \* the watched object at the API server: Nil when absent
    cache,              \* the cache stores (mgrutils.CacheStores) that hold the object
    synced,             \* the admin API was updated since the cache last changed
    queued,             \* a Reconcile request for the object is in the work queue
    faulty,             \* whether the client, the stores and the admin API may fail
    seen,               \* history: Nil, or Some(obj) as Get read it in the latest pass
    calls,              \* history: the calls of the latest pass, in order
    result              \* history: Nil, or Some(what the latest pass returned)

vars == <<kind, hashedRouteNames, ingressList, pc, k, i, j, services,
          secretNameToSNIs, usedRouteNames, allDefaultBackends, translated, emitted, snapshot, prev,
          fn, arg, ret, fragments, pending, merged,
          reconciler, object, cache, synced, queued, faulty, seen, calls, result>>

-----------------------------------------------------------------------------
(* Bounds of the model.                                                    *)

\* resources per snapshot list in the multi-resource inputs; creation
\* timestamps range over 1..MaxIngresses
MaxIngresses == 2
\* rule-paths (L4: rules) of the resource in the single-resource inputs
MaxRulePaths == 3
\* characters of a path handed to pathsFromK8s on its own
MaxPathLen == 4
\* candidates of a split list handed to knativeSelectSplit on its own
MaxSplits == 3

-----------------------------------------------------------------------------
(* Values shared by all kinds.                                             *)

\* a nil pointer / an absent optional field, and a present one
Nil == <<>>
Some(x) == <<x>>

\* the defaults the normalizers write into every service; they are declared
\* outside translate.go, which only uses them
DefaultHTTPPort == 80
DefaultServiceTimeout == 60000
DefaultRetries == 5

\* the kind prefixes of content-stable route names
IngressV1RoutePrefix == "ingressv1"
IngressV1Beta1RoutePrefix == "ingressv1beta1"
TCPIngressV1Beta1RoutePrefix == "tcpingressv1beta1"
UDPIngressV1Beta1RoutePrefix == "udpingressv1beta1"
KnativeIngressV1Alpha1RoutePrefix == "knativeingressv1alpha1"

RECURSIVE StrOf(_)
\* the string spelled by a sequence of characters
StrOf(cs) == IF cs = <<>> THEN "" ELSE Head(cs) \o StrOf(Tail(cs))

\* strings.Contains(path, "//")
ContainsDoubleSlash(path) ==
    \E p \in 1..(Len(path) - 1) : path[p] = "/" /\ path[p + 1] = "/"

RECURSIVE TrimLeft(_, _)
\* strings.TrimLeft(path, c)
TrimLeft(path, c) ==
    IF path # <<>> /\ Head(path) = c THEN TrimLeft(Tail(path), c) ELSE path

RECURSIVE TrimRight(_, _)
\* the right half of strings.Trim(path, c)
TrimRight(path, c) ==
    IF path # <<>> /\ path[Len(path)] = c
    THEN TrimRight(SubSeq(path, 1, Len(path) - 1), c)
    ELSE path

\* Trim that leaves the right end alone
TrimLeftOnly(path, c) == TrimLeft(path, c)

\* strings.Trim(path, c)
Trim(path, c) == TrimRight(TrimLeft(path, c), c)

\* Before that also holds of equal creation timestamps
BeforeOrSame(a, b) == a.creationTimestamp <= b.creationTimestamp

\* metav1.Time.Before on two creation timestamps
Before(a, b) == a.creationTimestamp < b.creationTimestamp

RECURSIVE InsertStable(_, _)
\* x put into the sorted sequence s behind every element not after it
InsertStable(s, x) ==
    IF s = <<>> THEN <<x>>
    ELSE IF Before(x, Head(s)) THEN <<x>> \o s
    ELSE <<Head(s)>> \o InsertStable(Tail(s), x)

RECURSIVE SortStable(_)
\* sort.SliceStable(list, by creation timestamp): equal timestamps keep
\* their order
SortStable(list) ==
    IF list = <<>> THEN <<>>
    ELSE InsertStable(SortStable(SubSeq(list, 1, Len(list) - 1)), list[Len(list)])

\* m[key] = v, the key added when it is new
Put(m, key, v) == [x \in (DOMAIN m) \cup {key} |-> IF x = key THEN v ELSE m[x]]

RECURSIVE AddHosts(_, _, _)
\* the hosts of one TLS declaration added to the set of the secret `key`
AddHosts(m, key, hosts) ==
    IF hosts = <<>> THEN m
    ELSE AddHosts(Put(m, key, (IF key \in DOMAIN m THEN m[key] ELSE {}) \cup {Head(hosts)}),
                  key, Tail(hosts))

RECURSIVE addFromIngressTLS(_, _, _)
\* SecretNameToSNIs.addFromIngressV1TLS / addFromIngressV1beta1TLS: declared
\* outside translate.go. Every host of every TLS declaration of the
\* resource is added to the host set of the declaration's secret; equal
\* hosts collapse
addFromIngressTLS(m, tls, namespace) ==
    IF tls = <<>> THEN m
    ELSE addFromIngressTLS(
             AddHosts(m, namespace \o "/" \o Head(tls).secretName, Head(tls).hosts),
             Tail(tls), namespace)

\* util.FromK8sObject: the back-reference a route keeps to its resource
FromK8sObject(ingress) == [namespace |-> ingress.namespace, name |-> ingress.name]


-----------------------------------------------------------------------------
(* The state of one call, as a record, so that each step of the code is an *)
(* operator from state to state.                                           *)

State ==
    [list |-> ingressList, pc |-> pc, k |-> k, i |-> i, j |-> j,
     services |-> services, secrets |-> secretNameToSNIs,
     used |-> usedRouteNames, adb |-> allDefaultBackends,
     translated |-> translated, emitted |-> emitted]

\* the variables of the call take the values of the record s
Becomes(s) ==
    /\ ingressList' = s.list
    /\ pc' = s.pc
    /\ k' = s.k
    /\ i' = s.i
    /\ j' = s.j
    /\ services' = s.services
    /\ secretNameToSNIs' = s.secrets
    /\ usedRouteNames' = s.used
    /\ allDefaultBackends' = s.adb
    /\ translated' = s.translated
    /\ emitted' = s.emitted

\* the state on entry of a call with the list `list`
Entry(list) ==
    [list |-> list, pc |-> "call", k |-> 1, i |-> 1, j |-> 1,
     services |-> <<>>, secrets |-> <<>>, used |-> {}, adb |-> <<>>,
     translated |-> {}, emitted |-> <<>>]

\* the HTTP kinds loop over rule.HTTP.Paths inside the loop over the rules
HTTPKinds == {"v1", "v1beta1", "knative"}

\* the two kinds that have a default-backend block behind the loops
DefaultKinds == {"v1", "v1beta1"}

\* where the code is once the outer loop is over
AfterLoop(kd) == IF kd \in DefaultKinds THEN "default" ELSE "done"

RECURSIVE Advance(_, _)
\* the loop headers: from a position (k, i, j) that may lie behind the end
\* of a path list or of a rule list to the next rule-path that exists (a
\* rule with HTTP == nil is passed over by `continue`), or to the prelude
\* of the next resource, or behind the outer loop
Advance(s, kd) ==
    IF s.k > Len(s.list) THEN [s EXCEPT !.pc = AfterLoop(kd)]
    ELSE IF s.pc = "ingress" THEN s
    ELSE LET rules == s.list[s.k].rules IN
         IF s.i > Len(rules)
         THEN Advance([s EXCEPT !.pc = "ingress", !.k = @ + 1, !.i = 1, !.j = 1], kd)
         ELSE IF kd \notin HTTPKinds
         THEN (IF s.j > 1 THEN Advance([s EXCEPT !.i = @ + 1, !.j = 1], kd) ELSE s)
         ELSE IF rules[s.i].http = Nil \/ s.j > Len(rules[s.i].http[1])
         THEN Advance([s EXCEPT !.i = @ + 1, !.j = 1], kd)
         ELSE s

\* `continue`, or the end of the loop body: on to the next rule-path
Continue(s, kd) == Advance([s EXCEPT !.j = @ + 1], kd)

\* Attach that stores a new service before it has a route
AttachLater(m, serviceName, fresh, r) ==
    IF serviceName \in DOMAIN m
    THEN Put(m, serviceName, [m[serviceName] EXCEPT !.routes = Append(@, r)])
    ELSE Put(m, serviceName, fresh)

\* Attach that rebuilds the service of an existing key from the current
\* rule, keeping its routes
AttachRebuilt(m, serviceName, fresh, r) ==
    LET routes == IF serviceName \in DOMAIN m THEN m[serviceName].routes ELSE <<>>
    IN Put(m, serviceName, [fresh EXCEPT !.routes = Append(routes, r)])

\* service, ok := services[serviceName]; if !ok { service = fresh };
\* service.Routes = append(service.Routes, r); services[serviceName] = service
Attach(m, serviceName, fresh, r) ==
    LET service == IF serviceName \in DOMAIN m THEN m[serviceName] ELSE fresh
    IN Put(m, serviceName, [service EXCEPT !.routes = Append(@, r)])

\* the history entry of a route appended for rule ri, path pj (as the code
\* counts them, from 0) of `ingress`, the kk-th resource of the sorted list,
\* or for its default backend (kk = 0): the route's name, the key of the
\* service it went to, and the backend (namespace, name, port) it targets
Emitted(ingress, kk, ri, pj, isDefault, routeName, serviceName, backend) ==
    [namespace |-> ingress.namespace, name |-> ingress.name,
     k |-> kk, i |-> ri, j |-> pj, default |-> isDefault,
     route |-> routeName, service |-> serviceName, backend |-> backend]

BackendId(namespace, name, port) ==
    [namespace |-> namespace, name |-> name, port |-> port]

\* sort.SliceStable(ingressList, ...) at the head of every normalizer
StepSort(s, kd) == Advance([s EXCEPT !.list = SortStable(@), !.pc = "ingress", !.k = 1], kd)

-----------------------------------------------------------------------------
(* Helpers of translate.go.                                                *)

serviceBackendPortToStr(port) ==
    IF port.name # "" THEN "pname-" \o port.name
    ELSE "pnum-" \o ToString(port.number)

PortDefFromServiceBackendPort(sbp) ==
    IF sbp.name # "" THEN [mode |-> "ByName", name |-> sbp.name, number |-> 0]
    ELSE IF sbp.number # 0 THEN [mode |-> "ByNumber", name |-> "", number |-> sbp.number]
    ELSE [mode |-> "Implicit", name |-> "", number |-> 0]

\* intstr.IntOrString: [type, intVal, strVal]
PortDefFromIntStr(is) ==
    IF is.type = "String" THEN [mode |-> "ByName", name |-> is.strVal, number |-> 0]
    ELSE [mode |-> "ByNumber", name |-> "", number |-> is.intVal]

\* intstr.IntOrString.String()
IntStrString(is) == IF is.type = "String" THEN is.strVal ELSE ToString(is.intVal)

\* kongstate.PortDef.CanonicalString(): declared outside translate.go
CanonicalString(port) ==
    IF port.mode = "ByNumber" THEN ToString(port.number)
    ELSE IF port.mode = "ByName" THEN port.name
    ELSE ""

\* util.IsValidPort: declared outside translate.go
IsValidPort(port) == port >= 1 /\ port <= 65535

RECURSIVE JoinStrs(_)
JoinStrs(strs) ==
    IF strs = <<>> THEN "" ELSE Head(strs) \o "," \o JoinStrs(Tail(strs))

RECURSIVE JoinNums(_)
JoinNums(nums) ==
    IF nums = <<>> THEN "" ELSE ToString(Head(nums)) \o "," \o JoinNums(Tail(nums))

\* getUniqIDForRouteConfig: declared outside translate.go. A deterministic
\* digest of the content of one isolated rule, here its fields written out
\* one after another: equal contents get equal ids, and the digest has no
\* collision of its own
getUniqIDForRouteConfig(content) ==
    JoinStrs(content.strs) \o "#" \o JoinNums(content.nums)

\* pathsFromK8s trimming the path of type Exact on both sides
pathsFromK8sExactTrimmed(path, pathType) ==
    IF pathType = "Prefix" THEN
        LET base == Trim(path, "/") IN
        IF base = <<>> THEN [err |-> FALSE, paths |-> <<"/">>]
        ELSE [err |-> FALSE, paths |-> <<"/" \o StrOf(base) \o "$", "/" \o StrOf(base) \o "/">>]
    ELSE IF pathType = "Exact" THEN
        [err |-> FALSE, paths |-> <<"/" \o StrOf(Trim(path, "/")) \o "$">>]
    ELSE IF pathType = "ImplementationSpecific" THEN
        (IF path = <<>> THEN [err |-> FALSE, paths |-> <<"/">>]
         ELSE [err |-> FALSE, paths |-> <<StrOf(path)>>])
    ELSE [err |-> TRUE, paths |-> <<>>]

\* pathsFromK8s taking an unknown path type for ImplementationSpecific
pathsFromK8sLenient(path, pathType) ==
    IF pathType = "Prefix" THEN
        LET base == Trim(path, "/") IN
        IF base = <<>> THEN [err |-> FALSE, paths |-> <<"/">>]
        ELSE [err |-> FALSE, paths |-> <<"/" \o StrOf(base) \o "$", "/" \o StrOf(base) \o "/">>]
    ELSE IF pathType = "Exact" THEN
        [err |-> FALSE, paths |-> <<"/" \o StrOf(TrimLeft(path, "/")) \o "$">>]
    ELSE IF path = <<>> THEN [err |-> FALSE, paths |-> <<"/">>]
    ELSE [err |-> FALSE, paths |-> <<StrOf(path)>>]

pathsFromK8s(path, pathType) ==
    IF pathType = "Prefix" THEN
        LET base == Trim(path, "/") IN
        IF base = <<>> THEN [err |-> FALSE, paths |-> <<"/">>]
        ELSE [err |-> FALSE, paths |-> <<"/" \o StrOf(base) \o "$", "/" \o StrOf(base) \o "/">>]
    ELSE IF pathType = "Exact" THEN
        [err |-> FALSE, paths |-> <<"/" \o StrOf(TrimLeft(path, "/")) \o "$">>]
    ELSE IF pathType = "ImplementationSpecific" THEN
        (IF path = <<>> THEN [err |-> FALSE, paths |-> <<"/">>]
         ELSE [err |-> FALSE, paths |-> <<StrOf(path)>>])
    ELSE [err |-> TRUE, paths |-> <<>>]

\* priorityForPath with the values of Exact and Prefix exchanged
priorityForPathSwapped(pathType) ==
    IF pathType = "Exact" THEN 200
    ELSE IF pathType = "Prefix" THEN 300
    ELSE IF pathType = "ImplementationSpecific" THEN 100
    ELSE 0

\* priorityForPath[pathType]; a key the map does not hold reads as 0
priorityForPath(pathType) ==
    IF pathType = "Exact" THEN 300
    ELSE IF pathType = "Prefix" THEN 200
    ELSE IF pathType = "ImplementationSpecific" THEN 100
    ELSE 0

\* the fields every HTTP route of the ingress kinds is built with
HTTPRoute(ingress, routeName, paths, hosts, priority) ==
    [name |-> routeName, paths |-> paths, hosts |-> hosts,
     protocols |-> <<"http", "https">>, regexPriority |-> Some(priority),
     stripPath |-> Some(FALSE), preserveHost |-> Some(TRUE),
     requestBuffering |-> Some(TRUE), responseBuffering |-> Some(TRUE),
     snis |-> <<>>, destinations |-> <<>>,
     ingress |-> FromK8sObject(ingress)]

\* the service of a rule-path of an HTTP kind, without routes
HTTPService(serviceName, host, namespace, backendName, port) ==
    [name |-> serviceName, host |-> host, port |-> DefaultHTTPPort,
     protocol |-> "http", path |-> Some("/"),
     connectTimeout |-> Some(DefaultServiceTimeout),
     readTimeout |-> Some(DefaultServiceTimeout),
     writeTimeout |-> Some(DefaultServiceTimeout),
     retries |-> Some(DefaultRetries),
     namespace |-> namespace,
     backend |-> [name |-> backendName, port |-> port],
     routes |-> <<>>, plugins |-> <<>>]

\* RouteName deaf to the flag: the hashed name in either mode
RouteNameHashedAlways(hashed, used, sequential, prefix, id, suffix) ==
    LET routeName == prefix \o id
        final == IF routeName \in used THEN routeName \o suffix ELSE routeName
    IN [name |-> final, used |-> used \cup {final}]

\* RouteName deaf to the flag: the sequential name in either mode
RouteNameSequential(hashed, used, sequential, prefix, id, suffix) ==
    [name |-> sequential, used |-> used]

\* the route name of the rule at index ri, path at index pj, and the set of
\* used names afterwards: sequential by default; with hashedRouteNames the
\* prefixed id of the isolated rule, suffixed with the indices when that
\* name is already in usedRouteNames
RouteName(hashed, used, sequential, prefix, id, suffix) ==
    IF ~hashed THEN [name |-> sequential, used |-> used]
    ELSE LET routeName == prefix \o id
             final == IF routeName \in used THEN routeName \o suffix ELSE routeName
         IN [name |-> final, used |-> used \cup {final}]

\* fmt.Sprintf("%s.%s.%s.", kindPrefix, ingress.Namespace, ingress.Name)
RoutePrefix(kindPrefix, ingress) ==
    kindPrefix \o "." \o ingress.namespace \o "." \o ingress.name \o "."

-----------------------------------------------------------------------------
(* fromIngressV1.                                                          *)
(* A resource: [namespace, name, creationTimestamp, rules, defaultBackend];*)
(* a rule: [host, http], http Nil or Some(paths); a path: [path, pathType, *)
(* backend], pathType Nil or Some(type); a backend: [service], service Nil *)
(* (a resource backend) or Some([name, port]); a port: [name, number].     *)

\* what getUniqIDForRouteConfig reads of uniqueRule, the rule cut down to
\* the one path
ContentV1(rule, rulePath) ==
    LET svc == rulePath.backend.service IN
    [strs |-> <<rule.host, StrOf(rulePath.path),
                IF rulePath.pathType = Nil THEN "" ELSE rulePath.pathType[1]>>
              \o (IF svc = Nil THEN <<>> ELSE <<svc[1].name, svc[1].port.name>>),
     nums |-> IF svc = Nil THEN <<>> ELSE <<svc[1].port.number>>]

\* the prelude of the outer loop: collect the default backend, reset
\* usedRouteNames
StepIngressV1(s) ==
    LET ingress == s.list[s.k] IN
    Advance([s EXCEPT !.adb = IF ingress.defaultBackend # Nil THEN Append(@, ingress) ELSE @,
                      !.secrets = addFromIngressTLS(@, ingress.tls, ingress.namespace),
                      !.used = {}, !.pc = "rules", !.i = 1, !.j = 1], "v1")

\* InvalidPathV1 that refuses nothing
InvalidPathV1Never(path) == FALSE

\* the path is refused before it is translated
InvalidPathV1(path) == ContainsDoubleSlash(path)

\* one iteration of the loop over rule.HTTP.Paths
StepRulePathV1(s, hashed) ==
    LET ingress == s.list[s.k]
        rule == ingress.rules[s.i]
        rulePath == rule.http[1][s.j]
        ri == s.i - 1
        pj == s.j - 1
    IN
    IF InvalidPathV1(rulePath.path) THEN Continue(s, "v1")
    ELSE
    LET pathType == IF rulePath.pathType # Nil THEN rulePath.pathType[1]
                    ELSE "ImplementationSpecific"
        res == pathsFromK8s(rulePath.path, pathType)
        s1 == [s EXCEPT !.translated = @ \cup {rulePath.path}]
    IN
    IF res.err THEN Continue(s1, "v1")
    ELSE
    LET rn == RouteName(hashed, s.used,
                  ingress.namespace \o "." \o ingress.name \o "." \o ToString(ri) \o ToString(pj),
                  RoutePrefix(IngressV1RoutePrefix, ingress),
                  getUniqIDForRouteConfig(ContentV1(rule, rulePath)),
                  "-" \o ToString(ri) \o "-" \o ToString(pj))
        r == HTTPRoute(ingress, rn.name, res.paths,
                       IF rule.host # "" THEN <<rule.host>> ELSE <<>>,
                       priorityForPath(pathType))
        s2 == [s1 EXCEPT !.used = rn.used]
    IN
    \* rulePath.Backend.Service.Port of a nil Service: a nil dereference
    IF rulePath.backend.service = Nil THEN [s2 EXCEPT !.pc = "panic"]
    ELSE
    LET svc == rulePath.backend.service[1]
        port == PortDefFromServiceBackendPort(svc.port)
        serviceName == ingress.namespace \o "." \o svc.name \o "."
                       \o serviceBackendPortToStr(svc.port)
        fresh == HTTPService(serviceName,
                     svc.name \o "." \o ingress.namespace \o "."
                         \o CanonicalString(port) \o ".svc",
                     ingress.namespace, svc.name, port)
    IN Continue([s2 EXCEPT !.services = Attach(@, serviceName, fresh, r),
                           !.emitted = Append(@, Emitted(ingress, s.k, ri, pj, FALSE,
                                   rn.name, serviceName,
                                   BackendId(ingress.namespace, svc.name, port)))],
                "v1")

\* DefaultCandidate with the precedence inverted: the youngest candidate
DefaultCandidateYoungest(adb) == SortStable(adb)[Len(adb)]

\* the resource whose default backend is materialized
DefaultCandidate(adb) == SortStable(adb)[1]

\* the service key of the default backend of fromIngressV1
DefaultServiceNameV1(ingress) ==
    LET svc == ingress.defaultBackend[1].service[1] IN
    ingress.namespace \o "." \o svc.name \o "."
        \o CanonicalString(PortDefFromServiceBackendPort(svc.port))

\* the route of the default backend, the same in both ingress kinds
DefaultRoute(ingress) ==
    HTTPRoute(ingress, ingress.namespace \o "." \o ingress.name, <<"/">>, <<>>, 0)

\* the default-backend block behind the loops
StepDefaultV1(s) ==
    IF Len(s.adb) = 0 THEN [s EXCEPT !.pc = "done"]
    ELSE
    LET ingress == DefaultCandidate(s.adb)
        defaultBackend == ingress.defaultBackend[1]
    IN
    \* defaultBackend.Service.Port of a nil Service: a nil dereference
    IF defaultBackend.service = Nil THEN [s EXCEPT !.adb = SortStable(@), !.pc = "panic"]
    ELSE
    LET svc == defaultBackend.service[1]
        serviceName == DefaultServiceNameV1(ingress)
        fresh == [HTTPService(serviceName,
                      svc.name \o "." \o ingress.namespace \o "."
                          \o ToString(svc.port.number) \o ".svc",
                      ingress.namespace, svc.name,
                      PortDefFromServiceBackendPort(svc.port))
                  EXCEPT !.path = Nil]
        r == DefaultRoute(ingress)
    IN [s EXCEPT !.adb = SortStable(@),
                 !.services = Attach(@, serviceName, fresh, r),
                 !.emitted = Append(@, Emitted(ingress, 0, 0, 0, TRUE, r.name, serviceName,
                                   BackendId(ingress.namespace, svc.name,
                                             PortDefFromServiceBackendPort(svc.port)))),
                 !.pc = "done"]

-----------------------------------------------------------------------------
(* fromIngressV1beta1.                                                     *)
(* A path: [path, backend]; a backend, and the default backend:            *)
(* [serviceName, servicePort], the port an intstr [type, intVal, strVal].  *)

ContentV1beta1(rule, rulePath) ==
    [strs |-> <<rule.host, StrOf(rulePath.path), rulePath.backend.serviceName,
                rulePath.backend.servicePort.strVal>>,
     nums |-> <<rulePath.backend.servicePort.intVal>>]

StepIngressV1beta1(s) ==
    LET ingress == s.list[s.k] IN
    Advance([s EXCEPT !.adb = IF ingress.defaultBackend # Nil THEN Append(@, ingress) ELSE @,
                      !.secrets = addFromIngressTLS(@, ingress.tls, ingress.namespace),
                      !.used = {}, !.pc = "rules", !.i = 1, !.j = 1], "v1beta1")

\* the path is refused before a route is built
InvalidPathV1beta1(path) == ContainsDoubleSlash(path)

\* the service key and the service of a legacy backend
ServiceNameV1beta1(ingress, backend) ==
    ingress.namespace \o "." \o backend.serviceName \o "."
        \o IntStrString(backend.servicePort)

ServiceV1beta1(ingress, backend) ==
    HTTPService(ServiceNameV1beta1(ingress, backend),
        backend.serviceName \o "." \o ingress.namespace \o "."
            \o IntStrString(backend.servicePort) \o ".svc",
        ingress.namespace, backend.serviceName,
        PortDefFromIntStr(backend.servicePort))

StepRulePathV1beta1(s, hashed) ==
    LET ingress == s.list[s.k]
        rule == ingress.rules[s.i]
        rulePath == rule.http[1][s.j]
        ri == s.i - 1
        pj == s.j - 1
    IN
    IF InvalidPathV1beta1(rulePath.path) THEN Continue(s, "v1beta1")
    ELSE
    LET path == IF rulePath.path = <<>> THEN "/" ELSE StrOf(rulePath.path)
        rn == RouteName(hashed, s.used,
                  ingress.namespace \o "." \o ingress.name \o "." \o ToString(ri) \o ToString(pj),
                  RoutePrefix(IngressV1Beta1RoutePrefix, ingress),
                  getUniqIDForRouteConfig(ContentV1beta1(rule, rulePath)),
                  "-" \o ToString(ri) \o "-" \o ToString(pj))
        r == HTTPRoute(ingress, rn.name, <<path>>,
                       IF rule.host # "" THEN <<rule.host>> ELSE <<>>, 0)
        serviceName == ServiceNameV1beta1(ingress, rulePath.backend)
    IN Continue([s EXCEPT !.used = rn.used,
                          !.services = Attach(@, serviceName,
                                              ServiceV1beta1(ingress, rulePath.backend), r),
                          !.emitted = Append(@, Emitted(ingress, s.k, ri, pj, FALSE,
                                  rn.name, serviceName,
                                  BackendId(ingress.namespace, rulePath.backend.serviceName,
                                            PortDefFromIntStr(rulePath.backend.servicePort))))],
                "v1beta1")

StepDefaultV1beta1(s) ==
    IF Len(s.adb) = 0 THEN [s EXCEPT !.pc = "done"]
    ELSE
    LET ingress == DefaultCandidate(s.adb)
        defaultBackend == ingress.defaultBackend[1]
        serviceName == ServiceNameV1beta1(ingress, defaultBackend)
        fresh == [ServiceV1beta1(ingress, defaultBackend) EXCEPT !.path = Nil]
        r == DefaultRoute(ingress)
    IN [s EXCEPT !.adb = SortStable(@),
                 !.services = Attach(@, serviceName, fresh, r),
                 !.emitted = Append(@, Emitted(ingress, 0, 0, 0, TRUE, r.name, serviceName,
                                   BackendId(ingress.namespace, defaultBackend.serviceName,
                                             PortDefFromIntStr(defaultBackend.servicePort)))),
                 !.pc = "done"]

-----------------------------------------------------------------------------
(* fromTCPIngressV1beta1 and fromUDPIngressV1beta1.                        *)
(* A TCP rule: [host, port, backend]; a UDP rule: [port, backend]; the     *)
(* backend: [serviceName, servicePort], the port a number.                 *)

\* L4Route without the destination
L4RouteNoDestination(ingress, routeName, protocols, snis, port) ==
    [name |-> routeName, paths |-> <<>>, hosts |-> <<>>,
     protocols |-> protocols, regexPriority |-> Nil,
     stripPath |-> Nil, preserveHost |-> Nil,
     requestBuffering |-> Nil, responseBuffering |-> Nil,
     snis |-> snis, destinations |-> <<>>,
     ingress |-> FromK8sObject(ingress)]

\* a route that matches on a listen port
L4Route(ingress, routeName, protocols, snis, port) ==
    [name |-> routeName, paths |-> <<>>, hosts |-> <<>>,
     protocols |-> protocols, regexPriority |-> Nil,
     stripPath |-> Nil, preserveHost |-> Nil,
     requestBuffering |-> Nil, responseBuffering |-> Nil,
     snis |-> snis, destinations |-> <<[port |-> port]>>,
     ingress |-> FromK8sObject(ingress)]

ContentTCP(rule) ==
    [strs |-> <<rule.host, rule.backend.serviceName>>,
     nums |-> <<rule.port, rule.backend.servicePort>>]

ContentUDP(rule) ==
    [strs |-> <<rule.backend.serviceName>>,
     nums |-> <<rule.port, rule.backend.servicePort>>]

\* the prelude of the outer loop of the kinds without default backend:
\* fromTCPIngressV1beta1 and fromKnativeIngress collect the TLS
\* declarations of the resource, fromUDPIngressV1beta1 has no such line
StepIngressL4(s, kd) ==
    LET ingress == s.list[s.k] IN
    Advance([s EXCEPT !.secrets = IF kd = "udp" THEN @
                                  ELSE addFromIngressTLS(@, ingress.tls, ingress.namespace),
                      !.used = {}, !.pc = "rules", !.i = 1, !.j = 1], kd)

\* BackendValidTCP without the check of the service name
BackendValidTCPAnyName(rule) == IsValidPort(rule.backend.servicePort)

\* the two checks behind the route of a TCP rule
BackendValidTCP(rule) ==
    /\ rule.backend.serviceName # ""
    /\ IsValidPort(rule.backend.servicePort)

StepRuleTCP(s, hashed) ==
    LET ingress == s.list[s.k]
        rule == ingress.rules[s.i]
        ri == s.i - 1
    IN
    IF ~IsValidPort(rule.port) THEN Continue(s, "tcp")
    ELSE
    LET rn == RouteName(hashed, s.used,
                  ingress.namespace \o "." \o ingress.name \o "." \o ToString(ri),
                  RoutePrefix(TCPIngressV1Beta1RoutePrefix, ingress),
                  getUniqIDForRouteConfig(ContentTCP(rule)),
                  "-" \o ToString(ri))
        r == L4Route(ingress, rn.name, <<"tcp", "tls">>,
                     IF rule.host # "" THEN <<rule.host>> ELSE <<>>, rule.port)
        s1 == [s EXCEPT !.used = rn.used]
    IN
    IF ~BackendValidTCP(rule) THEN Continue(s1, "tcp")
    ELSE
    LET serviceName == ingress.namespace \o "." \o rule.backend.serviceName \o "."
                       \o ToString(rule.backend.servicePort)
        fresh == [HTTPService(serviceName,
                      rule.backend.serviceName \o "." \o ingress.namespace \o "."
                          \o ToString(rule.backend.servicePort) \o ".svc",
                      ingress.namespace, rule.backend.serviceName,
                      [mode |-> "ByNumber", name |-> "", number |-> rule.backend.servicePort])
                  EXCEPT !.protocol = "tcp", !.path = Nil]
    IN Continue([s1 EXCEPT !.services = Attach(@, serviceName, fresh, r),
                           !.emitted = Append(@, Emitted(ingress, s.k, ri, 0, FALSE,
                                   rn.name, serviceName,
                                   BackendId(ingress.namespace, rule.backend.serviceName,
                                             fresh.backend.port)))],
                "tcp")

\* the three checks at the head of the loop body of a UDP rule
RuleValidUDP(rule) ==
    /\ IsValidPort(rule.port)
    /\ rule.backend.serviceName # ""
    /\ IsValidPort(rule.backend.servicePort)

StepRuleUDP(s, hashed) ==
    LET ingress == s.list[s.k]
        rule == ingress.rules[s.i]
        ri == s.i - 1
    IN
    IF ~RuleValidUDP(rule) THEN Continue(s, "udp")
    ELSE
    LET rn == RouteName(hashed, s.used,
                  ingress.namespace \o "." \o ingress.name \o "." \o ToString(ri) \o ".udp",
                  RoutePrefix(UDPIngressV1Beta1RoutePrefix, ingress),
                  getUniqIDForRouteConfig(ContentUDP(rule)),
                  "-" \o ToString(ri))
        route == L4Route(ingress, rn.name, <<"udp">>, <<>>, rule.port)
        host == rule.backend.serviceName \o "." \o ingress.namespace \o "."
                \o ToString(rule.backend.servicePort) \o ".svc"
        serviceName == ingress.namespace \o "." \o rule.backend.serviceName \o "."
                       \o ToString(rule.backend.servicePort) \o ".udp"
        fresh == [name |-> serviceName, host |-> host, port |-> rule.backend.servicePort,
                  protocol |-> "udp", path |-> Nil,
                  connectTimeout |-> Nil, readTimeout |-> Nil, writeTimeout |-> Nil,
                  retries |-> Nil, namespace |-> ingress.namespace,
                  backend |-> [name |-> rule.backend.serviceName,
                               port |-> [mode |-> "ByNumber", name |-> "",
                                         number |-> rule.backend.servicePort]],
                  routes |-> <<>>, plugins |-> <<>>]
    IN Continue([s EXCEPT !.used = rn.used,
                          !.services = Attach(@, serviceName, fresh, route),
                          !.emitted = Append(@, Emitted(ingress, s.k, ri, 0, FALSE,
                                  rn.name, serviceName,
                                  BackendId(ingress.namespace, rule.backend.serviceName,
                                            fresh.backend.port)))],
                "udp")

-----------------------------------------------------------------------------
(* fromKnativeIngress.                                                     *)
(* A rule: [hosts, http]; a path: [path, splits, appendHeaders]; a split:  *)
(* [serviceNamespace, serviceName, servicePort, percent, appendHeaders];   *)
(* appendHeaders a map from header names to values.                        *)

\* knative.IngressBackendSplit{}
ZeroSplit ==
    [serviceNamespace |-> "", serviceName |-> "",
     servicePort |-> [type |-> "Int", intVal |-> 0, strVal |-> ""],
     percent |-> 0, appendHeaders |-> <<>>]

RECURSIVE ScanSplitsLast(_, _, _)
\* ScanSplits with >= for >: the last of the heaviest candidates
ScanSplitsLast(splits, x, res) ==
    IF x > Len(splits) THEN res
    ELSE IF splits[x].percent >= res.percent THEN ScanSplitsLast(splits, x + 1, splits[x])
    ELSE ScanSplitsLast(splits, x + 1, res)

RECURSIVE ScanSplits(_, _, _)
\* the loop of knativeSelectSplit from index x on, res the best so far
ScanSplits(splits, x, res) ==
    IF x > Len(splits) THEN res
    ELSE IF splits[x].percent > res.percent THEN ScanSplits(splits, x + 1, splits[x])
    ELSE ScanSplits(splits, x + 1, res)

knativeSelectSplit(splits) ==
    IF Len(splits) = 0 THEN ZeroSplit
    ELSE IF Len(splits) = 1 THEN splits[1]
    ELSE ScanSplits(splits, 2, splits[1])

\* the orders in which a `for key, value := range m` may visit the map m:
\* the language leaves the order open, every order can occur
RangeOrders(m) ==
    LET n == Cardinality(DOMAIN m) IN
    { [p \in 1..n |-> f[p] \o ":" \o m[f[p]]] :
        f \in {g \in [1..n -> DOMAIN m] : \A x, y \in 1..n : g[x] = g[y] => x = y} }

\* the values `headers` may have behind the two range loops
HeaderLists(knativeBackend, rulePath) ==
    { a \o b : a \in RangeOrders(knativeBackend.appendHeaders),
               b \in RangeOrders(rulePath.appendHeaders) }

\* the entries of a map in one fixed order, for the order-independent digest
MapEntries(m) == CHOOSE q \in RangeOrders(m) : TRUE

RECURSIVE SplitStrs(_)
SplitStrs(splits) ==
    IF splits = <<>> THEN <<>>
    ELSE <<Head(splits).serviceNamespace, Head(splits).serviceName,
           Head(splits).servicePort.strVal>>
         \o MapEntries(Head(splits).appendHeaders) \o SplitStrs(Tail(splits))

RECURSIVE SplitNums(_)
SplitNums(splits) ==
    IF splits = <<>> THEN <<>>
    ELSE <<Head(splits).servicePort.intVal, Head(splits).percent>>
         \o SplitNums(Tail(splits))

ContentKnative(rule, rulePath) ==
    [strs |-> rule.hosts \o <<StrOf(rulePath.path)>> \o SplitStrs(rulePath.splits)
              \o MapEntries(rulePath.appendHeaders),
     nums |-> SplitNums(rulePath.splits)]

\* the request-transformer plugin built from a non-empty header list
HeaderPlugin(headers) ==
    [name |-> "request-transformer", config |-> [add |-> [headers |-> headers]]]

\* the backend chosen for the rule-path the state s is at
BackendAt(s) == knativeSelectSplit(s.list[s.k].rules[s.i].http[1][s.j].splits)

\* one iteration of the loop over rule.HTTP.Paths; `headers` is the list
\* the two range loops over the AppendHeaders maps have built, read only
\* when the service is new
StepRulePathKnative(s, hashed, headers) ==
    LET ingress == s.list[s.k]
        rule == ingress.rules[s.i]
        rulePath == rule.http[1][s.j]
        ri == s.i - 1
        pj == s.j - 1
        path == IF rulePath.path = <<>> THEN "/" ELSE StrOf(rulePath.path)
        rn == RouteName(hashed, s.used,
                  ingress.namespace \o "." \o ingress.name \o "." \o ToString(ri) \o ToString(pj),
                  RoutePrefix(KnativeIngressV1Alpha1RoutePrefix, ingress),
                  getUniqIDForRouteConfig(ContentKnative(rule, rulePath)),
                  "-" \o ToString(ri) \o "-" \o ToString(pj))
        r == HTTPRoute(ingress, rn.name, <<path>>, rule.hosts, 0)
        knativeBackend == BackendAt(s)
        serviceName == knativeBackend.serviceNamespace \o "." \o knativeBackend.serviceName
                       \o "." \o IntStrString(knativeBackend.servicePort)
        serviceHost == knativeBackend.serviceName \o "." \o knativeBackend.serviceNamespace
                       \o "." \o IntStrString(knativeBackend.servicePort) \o ".svc"
        fresh == [HTTPService(serviceName, serviceHost, ingress.namespace,
                              knativeBackend.serviceName,
                              PortDefFromIntStr(knativeBackend.servicePort))
                  EXCEPT !.plugins = IF Len(headers) > 0 THEN <<HeaderPlugin(headers)>>
                                     ELSE <<>>]
    IN Continue([s EXCEPT !.used = rn.used,
                          !.services = Attach(@, serviceName, fresh, r),
                          !.emitted = Append(@, Emitted(ingress, s.k, ri, pj, FALSE,
                                  rn.name, serviceName,
                                  BackendId(knativeBackend.serviceNamespace,
                                            knativeBackend.serviceName,
                                            PortDefFromIntStr(knativeBackend.servicePort))))],
                "knative")

-----------------------------------------------------------------------------
(* The snapshot lists the calls are given.  Three families per kind:       *)
(*  - one resource whose rule-paths are a sequence of up to MaxRulePaths   *)
(*    contents, at most two different ones, laid out as the paths of one   *)
(*    rule ("flat"), as one rule per path ("split"), or as one rule per    *)
(*    path behind a rule without HTTP block ("gap");                       *)
(*  - for the kinds with default backends, one resource with a default     *)
(*    backend and at most one rule-path;                                   *)
(*  - up to MaxIngresses resources in any order of creation, each with or  *)
(*    without one plain rule-path and a default backend of its own.        *)
(* Namespaces and service names are DNS labels (no dot); resource names    *)
(* are DNS subdomains (dots allowed); a port name holds a letter.          *)

Range(f) == {f[x] : x \in DOMAIN f}

\* the sequences of up to MaxRulePaths items with at most two different ones
ItemSeqs(items) ==
    {q \in UNION {[1..n -> items] : n \in 0..MaxRulePaths} : Cardinality(Range(q)) <= 2}

\* the rule list that lays the paths q out in the given shape, Rule(host,
\* http) building a rule of the kind
Layout(q, shape, Rule(_, _)) ==
    LET split == [x \in DOMAIN q |-> Rule("h", Some(<<q[x]>>))] IN
    IF shape = "flat" THEN (IF q = <<>> THEN <<>> ELSE <<Rule("", Some(q))>>)
    ELSE IF shape = "split" THEN split
    ELSE <<Rule("", Nil)>> \o split

RuleHTTP(host, http) == [host |-> host, http |-> http]

RuleKnative(host, http) ==
    [hosts |-> IF host = "" THEN <<>> ELSE <<host>>, http |-> http]

Shapes == {"flat", "split", "gap"}

RECURSIVE ResName(_)
\* the name of the p-th resource of a list: "a", "a.00", "a.00.00", ...
ResName(p) == IF p = 1 THEN "a" ELSE ResName(p - 1) \o ".00"

Resource(name, ts, rules, defaultBackend) ==
    [namespace |-> "n", name |-> name, creationTimestamp |-> ts,
     rules |-> rules, defaultBackend |-> defaultBackend, tls |-> <<>>]

\* one TLS declaration of a resource
TLS(hosts, secretName) == [hosts |-> hosts, secretName |-> secretName]

\* the TLS sections of the resources that declare TLS
TLSChoices ==
    { <<TLS(<<"h">>, "c")>>,
      <<TLS(<<"h", "g">>, "c"), TLS(<<"h">>, "c"), TLS(<<"g">>, "d")>> }

\* the resource with the TLS section tls
WithTLS(resource, tls) == [resource EXCEPT !.tls = tls]

\* the lists of n resources, the p-th one named ResName(p) and drawn from
\* choices(p)
ListsOf(n, choices(_)) ==
    {l \in [1..n -> UNION {choices(p) : p \in 1..n}] : \A p \in 1..n : l[p] \in choices(p)}

SvcV1(name, portName, portNumber) ==
    [service |-> Some([name |-> name, port |-> [name |-> portName, number |-> portNumber]])]

PathV1(path, pathType, backend) ==
    [path |-> path, pathType |-> pathType, backend |-> backend]

ItemsV1 ==
    { PathV1(<<"/", "a">>, Some("Prefix"), SvcV1("s", "", 80)),
      PathV1(<<"/", "b">>, Some("Prefix"), SvcV1("s", "", 80)),
      PathV1(<<"/", "a">>, Some("Exact"), SvcV1("s", "http", 0)),
      PathV1(<<"/", "a", "/", "/", "b">>, Some("Prefix"), SvcV1("s", "", 80)),
      PathV1(<<"/", "a">>, Nil, [service |-> Nil]),
      PathV1(<<"/", "a">>, Some("Bogus"), SvcV1("s", "", 80)),
      PathV1(<<>>, Some("ImplementationSpecific"), SvcV1("t", "", 80)),
      PathV1(<<"/", "b">>, Nil, SvcV1("", "", 80)) }

DefaultsV1 == { SvcV1("s", "", 80), SvcV1("s", "http", 0), [service |-> Nil] }

PlainRuleV1 == [host |-> "", http |-> Some(<<PathV1(<<"/", "a">>, Some("Prefix"), SvcV1("s", "", 80))>>)]

\* a resource of the namespace "ingressv1" with a default backend, its name
\* spelling the rest of the content-stable route name of PlainRuleV1 in
\* the resource n/a
NamedAlikeV1 ==
    [namespace |-> IngressV1RoutePrefix,
     name |-> "n.a." \o getUniqIDForRouteConfig(ContentV1(PlainRuleV1, PlainRuleV1.http[1][1])),
     creationTimestamp |-> 1, rules |-> <<>>,
     defaultBackend |-> Some(SvcV1("d", "", 80)), tls |-> <<>>]

MultiChoicesV1(p) ==
    { Resource(ResName(p), ts, rules, db) :
        ts \in 1..MaxIngresses,
        rules \in {<<>>, <<PlainRuleV1>>},
        db \in {Nil, Some(SvcV1("d" \o ToString(p), "", 80))} }

InputsV1 ==
    { <<Resource("a", 1, Layout(q, shape, RuleHTTP), Nil)>> :
        q \in ItemSeqs(ItemsV1), shape \in Shapes }
    \cup { <<Resource("a", 1, Layout(q, "flat", RuleHTTP), Some(db))>> :
             q \in {x \in ItemSeqs(ItemsV1) : Len(x) <= 1}, db \in DefaultsV1 }
    \cup UNION { ListsOf(n, MultiChoicesV1) : n \in 0..MaxIngresses }
    \cup { <<Resource("a", 1, <<PlainRuleV1>>, Nil), NamedAlikeV1>> }
    \cup { <<WithTLS(Resource("a", 1, <<PlainRuleV1>>, Nil), tls)>> : tls \in TLSChoices }

IntPort(n) == [type |-> "Int", intVal |-> n, strVal |-> ""]
StrPort(name) == [type |-> "String", intVal |-> 0, strVal |-> name]

BackendV1beta1(name, port) == [serviceName |-> name, servicePort |-> port]

PathV1beta1(path, backend) == [path |-> path, backend |-> backend]

ItemsV1beta1 ==
    { PathV1beta1(<<"/", "a">>, BackendV1beta1("s", IntPort(80))),
      PathV1beta1(<<"/", "b">>, BackendV1beta1("s", IntPort(80))),
      PathV1beta1(<<"/", "a">>, BackendV1beta1("s", StrPort("http"))),
      PathV1beta1(<<"/", "a", "/", "/", "b">>, BackendV1beta1("s", IntPort(80))),
      PathV1beta1(<<>>, BackendV1beta1("t", IntPort(80))),
      PathV1beta1(<<"/", "b">>, BackendV1beta1("", IntPort(80))) }

DefaultsV1beta1 == { BackendV1beta1("s", IntPort(80)), BackendV1beta1("s", StrPort("http")) }

PlainRuleV1beta1 ==
    [host |-> "", http |-> Some(<<PathV1beta1(<<"/", "a">>, BackendV1beta1("s", IntPort(80)))>>)]

MultiChoicesV1beta1(p) ==
    { Resource(ResName(p), ts, rules, db) :
        ts \in 1..MaxIngresses,
        rules \in {<<>>, <<PlainRuleV1beta1>>},
        db \in {Nil, Some(BackendV1beta1("d" \o ToString(p), IntPort(80)))} }

InputsV1beta1 ==
    { <<Resource("a", 1, Layout(q, shape, RuleHTTP), Nil)>> :
        q \in ItemSeqs(ItemsV1beta1), shape \in Shapes }
    \cup { <<Resource("a", 1, Layout(q, "flat", RuleHTTP), Some(db))>> :
             q \in {x \in ItemSeqs(ItemsV1beta1) : Len(x) <= 1}, db \in DefaultsV1beta1 }
    \cup UNION { ListsOf(n, MultiChoicesV1beta1) : n \in 0..MaxIngresses }
    \cup { <<WithTLS(Resource("a", 1, <<PlainRuleV1beta1>>, Nil), tls)>> : tls \in TLSChoices }

BackendL4(name, port) == [serviceName |-> name, servicePort |-> port]

RuleTCP(host, port, backend) == [host |-> host, port |-> port, backend |-> backend]

ItemsTCP ==
    { RuleTCP("", 9000, BackendL4("s", 80)),
      RuleTCP("", 9000, BackendL4("t", 80)),
      RuleTCP("h", 9001, BackendL4("s", 80)),
      RuleTCP("", 0, BackendL4("s", 80)),
      RuleTCP("", 65536, BackendL4("s", 80)),
      RuleTCP("", 9000, BackendL4("", 80)),
      RuleTCP("", 9002, BackendL4("s", 0)),
      RuleTCP("", 9002, BackendL4("s", 65536)) }

MultiChoicesTCP(p) ==
    { Resource(ResName(p), ts, rules, Nil) :
        ts \in 1..MaxIngresses,
        rules \in {<<>>, <<RuleTCP("", 9000, BackendL4("s", 80))>>,
                   <<RuleTCP("", 0, BackendL4("s", 80)), RuleTCP("", 9000, BackendL4("s", 80))>>} }

InputsTCP ==
    { <<Resource("a", 1, q, Nil)>> : q \in ItemSeqs(ItemsTCP) }
    \cup UNION { ListsOf(n, MultiChoicesTCP) : n \in 0..MaxIngresses }
    \cup { <<WithTLS(Resource("a", 1, <<RuleTCP("h", 9001, BackendL4("s", 80))>>, Nil), tls)>> :
             tls \in TLSChoices }

RuleUDP(port, backend) == [port |-> port, backend |-> backend]

ItemsUDP ==
    { RuleUDP(9000, BackendL4("s", 80)),
      RuleUDP(9000, BackendL4("t", 80)),
      RuleUDP(9001, BackendL4("s", 80)),
      RuleUDP(0, BackendL4("s", 80)),
      RuleUDP(65536, BackendL4("s", 80)),
      RuleUDP(9000, BackendL4("", 80)),
      RuleUDP(9002, BackendL4("s", 0)),
      RuleUDP(9002, BackendL4("s", 65536)) }

MultiChoicesUDP(p) ==
    { Resource(ResName(p), ts, rules, Nil) :
        ts \in 1..MaxIngresses,
        rules \in {<<>>, <<RuleUDP(9000, BackendL4("s", 80))>>,
                   <<RuleUDP(9000, BackendL4("", 80)), RuleUDP(9000, BackendL4("s", 80))>>} }

InputsUDP ==
    { <<Resource("a", 1, q, Nil)>> : q \in ItemSeqs(ItemsUDP) }
    \cup UNION { ListsOf(n, MultiChoicesUDP) : n \in 0..MaxIngresses }

Split(name, percent, headers) ==
    [serviceNamespace |-> "n", serviceName |-> name, servicePort |-> IntPort(80),
     percent |-> percent, appendHeaders |-> headers]

PathKnative(path, splits, headers) ==
    [path |-> path, splits |-> splits, appendHeaders |-> headers]

NoHeaders == <<>>
TwoHeaders == [h \in {"x", "y"} |-> IF h = "x" THEN "1" ELSE "2"]
OneHeader == [h \in {"z"} |-> "3"]

ItemsKnative ==
    { PathKnative(<<"/", "a">>, <<Split("s", 100, NoHeaders)>>, NoHeaders),
      PathKnative(<<"/", "b">>, <<Split("s", 100, NoHeaders)>>, NoHeaders),
      PathKnative(<<"/", "a", "/", "/", "b">>, <<Split("s", 100, NoHeaders)>>, NoHeaders),
      PathKnative(<<"/", "a">>, <<>>, NoHeaders),
      PathKnative(<<>>, <<Split("s", 20, NoHeaders), Split("t", 70, TwoHeaders),
                          Split("u", 10, NoHeaders)>>, NoHeaders),
      PathKnative(<<"/", "a">>, <<Split("s", 50, NoHeaders), Split("t", 50, NoHeaders)>>,
                  OneHeader),
      PathKnative(<<"/", "c">>, <<Split("u", 100, NoHeaders)>>, TwoHeaders) }

PlainRuleKnative ==
    [hosts |-> <<>>, http |-> Some(<<PathKnative(<<"/", "a">>, <<Split("s", 100, NoHeaders)>>,
                                                 NoHeaders)>>)]

MultiChoicesKnative(p) ==
    { Resource(ResName(p), ts, rules, Nil) :
        ts \in 1..MaxIngresses,
        rules \in {<<>>, <<PlainRuleKnative>>} }

InputsKnative ==
    { <<Resource("a", 1, Layout(q, shape, RuleKnative), Nil)>> :
        q \in ItemSeqs(ItemsKnative), shape \in Shapes }
    \cup UNION { ListsOf(n, MultiChoicesKnative) : n \in 0..MaxIngresses }
    \cup { <<WithTLS(Resource("a", 1, <<PlainRuleKnative>>, Nil), tls)>> : tls \in TLSChoices }

Kinds == {"v1", "v1beta1", "tcp", "udp", "knative"}

Inputs(kd) ==
    IF kd = "v1" THEN InputsV1
    ELSE IF kd = "v1beta1" THEN InputsV1beta1
    ELSE IF kd = "tcp" THEN InputsTCP
    ELSE IF kd = "udp" THEN InputsUDP
    ELSE InputsKnative

-----------------------------------------------------------------------------
(* The calls.                                                              *)

\* what a normalizer call does not touch: the variables of a helper called
\* on its own and of the merge
\* the variables of the reconcilers
Cluster == <<reconciler, object, cache, synced, queued, faulty, seen, calls, result>>

\* no reconciler runs
NoReconciler ==
    /\ reconciler = "" /\ object = Nil /\ cache = {} /\ synced = TRUE
    /\ queued = FALSE /\ faulty = FALSE /\ seen = Nil /\ calls = <<>> /\ result = Nil

Outside == <<fn, arg, ret, fragments, pending, merged, Cluster>>

\* no helper is called on its own
NoHelper == fn = "" /\ arg = <<>> /\ ret = Nil

\* no merge is under way
NoMerge == fragments = <<>> /\ pending = {} /\ merged = <<>>

Init ==
    /\ kind \in Kinds
    /\ hashedRouteNames \in BOOLEAN
    /\ ingressList \in Inputs(kind)
    /\ snapshot = ingressList
    /\ prev = <<>>
    /\ pc = "call"
    /\ k = 1 /\ i = 1 /\ j = 1
    /\ services = <<>>
    /\ secretNameToSNIs = <<>>
    /\ usedRouteNames = {}
    /\ allDefaultBackends = <<>>
    /\ translated = {}
    /\ emitted = <<>>
    /\ NoHelper
    /\ NoMerge
    /\ NoReconciler

Params == <<kind, hashedRouteNames, snapshot, Outside>>

\* sort.SliceStable on the caller's list
Sort ==
    /\ pc = "call"
    /\ Becomes(StepSort(State, kind))
    /\ UNCHANGED <<Params, prev>>

IngressV1 ==
    /\ kind = "v1" /\ pc = "ingress"
    /\ Becomes(StepIngressV1(State))
    /\ UNCHANGED <<Params, prev>>

RulePathV1 ==
    /\ kind = "v1" /\ pc = "rules"
    /\ Becomes(StepRulePathV1(State, hashedRouteNames))
    /\ UNCHANGED <<Params, prev>>

DefaultV1 ==
    /\ kind = "v1" /\ pc = "default"
    /\ Becomes(StepDefaultV1(State))
    /\ UNCHANGED <<Params, prev>>

IngressV1beta1 ==
    /\ kind = "v1beta1" /\ pc = "ingress"
    /\ Becomes(StepIngressV1beta1(State))
    /\ UNCHANGED <<Params, prev>>

RulePathV1beta1 ==
    /\ kind = "v1beta1" /\ pc = "rules"
    /\ Becomes(StepRulePathV1beta1(State, hashedRouteNames))
    /\ UNCHANGED <<Params, prev>>

DefaultV1beta1 ==
    /\ kind = "v1beta1" /\ pc = "default"
    /\ Becomes(StepDefaultV1beta1(State))
    /\ UNCHANGED <<Params, prev>>

IngressTCP ==
    /\ kind = "tcp" /\ pc = "ingress"
    /\ Becomes(StepIngressL4(State, "tcp"))
    /\ UNCHANGED <<Params, prev>>

RuleTCPStep ==
    /\ kind = "tcp" /\ pc = "rules"
    /\ Becomes(StepRuleTCP(State, hashedRouteNames))
    /\ UNCHANGED <<Params, prev>>

IngressUDP ==
    /\ kind = "udp" /\ pc = "ingress"
    /\ Becomes(StepIngressL4(State, "udp"))
    /\ UNCHANGED <<Params, prev>>

RuleUDPStep ==
    /\ kind = "udp" /\ pc = "rules"
    /\ Becomes(StepRuleUDP(State, hashedRouteNames))
    /\ UNCHANGED <<Params, prev>>

IngressKnative ==
    /\ kind = "knative" /\ pc = "ingress"
    /\ Becomes(StepIngressL4(State, "knative"))
    /\ UNCHANGED <<Params, prev>>

RulePathKnative ==
    /\ kind = "knative" /\ pc = "rules"
    /\ \E headers \in HeaderLists(BackendAt(State),
                                  ingressList[k].rules[i].http[1][j]) :
          Becomes(StepRulePathKnative(State, hashedRouteNames, headers))
    /\ UNCHANGED <<Params, prev>>

\* the caller, holding the fragment of a first call, calls the same
\* normalizer again with the same slice and the same flag
Reinvoke ==
    /\ pc = "done" /\ prev = <<>>
    /\ prev' = <<[services |-> services, emitted |-> emitted]>>
    /\ Becomes(Entry(ingressList))
    /\ UNCHANGED Params

Next ==
    \/ Sort
    \/ IngressV1 \/ RulePathV1 \/ DefaultV1
    \/ IngressV1beta1 \/ RulePathV1beta1 \/ DefaultV1beta1
    \/ IngressTCP \/ RuleTCPStep
    \/ IngressUDP \/ RuleUDPStep
    \/ IngressKnative \/ RulePathKnative
    \/ Reinvoke

Spec == Init /\ [][Next]_vars

-----------------------------------------------------------------------------
(* A whole call as a function of its input, by the same steps.             *)

\* the step the code takes next in state s; the header list of a new
\* weighted-split service in one of its possible orders
StepOf(kd, s, hashed) ==
    IF s.pc = "call" THEN StepSort(s, kd)
    ELSE IF s.pc = "ingress" THEN
        (IF kd = "v1" THEN StepIngressV1(s)
         ELSE IF kd = "v1beta1" THEN StepIngressV1beta1(s)
         ELSE StepIngressL4(s, kd))
    ELSE IF s.pc = "rules" THEN
        (IF kd = "v1" THEN StepRulePathV1(s, hashed)
         ELSE IF kd = "v1beta1" THEN StepRulePathV1beta1(s, hashed)
         ELSE IF kd = "tcp" THEN StepRuleTCP(s, hashed)
         ELSE IF kd = "udp" THEN StepRuleUDP(s, hashed)
         ELSE StepRulePathKnative(s, hashed,
                  CHOOSE h \in HeaderLists(BackendAt(s),
                                           s.list[s.k].rules[s.i].http[1][s.j]) : TRUE))
    ELSE IF s.pc = "default" THEN
        (IF kd = "v1" THEN StepDefaultV1(s) ELSE StepDefaultV1beta1(s))
    ELSE s

RECURSIVE Run(_, _, _)
\* the state in which the call that is in state s ends
Run(kd, s, hashed) ==
    IF s.pc \in {"done", "panic"} THEN s ELSE Run(kd, StepOf(kd, s, hashed), hashed)

-----------------------------------------------------------------------------
(* What the fragment is checked against.                                   *)

\* the names of the routes of a sequence of routes or of history entries
RouteNames(routes) == [x \in DOMAIN routes |-> routes[x].name]
EntryNames(entries) == [x \in DOMAIN entries |-> entries[x].route]

\* the history entries of the routes appended to the service `key`
EntriesOf(key) == SelectSeq(emitted, LAMBDA e : e.service = key)

\* the fragment holds the routes the history tells of and no others: every
\* service holds, in order, the routes appended to it, and there is no
\* service nothing was appended to
FragmentIsEmitted ==
    /\ DOMAIN services = {emitted[x].service : x \in DOMAIN emitted}
    /\ \A key \in DOMAIN services :
          RouteNames(services[key].routes) = EntryNames(EntriesOf(key))

HasDefault(r) == r.defaultBackend # Nil

\* the position in `list` of the resource with the earliest creation
\* timestamp among those that declare a default backend, the first of them
\* in the list when several share that timestamp
EarliestDefault(list) ==
    CHOOSE p \in DOMAIN list :
        /\ HasDefault(list[p])
        /\ \A q \in DOMAIN list :
              HasDefault(list[q]) =>
                  \/ list[p].creationTimestamp < list[q].creationTimestamp
                  \/ /\ list[p].creationTimestamp = list[q].creationTimestamp
                     /\ p <= q

\* the backend a resource declares as its default, as the service records it
DeclaredDefault(kd, r) ==
    IF kd = "v1"
    THEN [name |-> r.defaultBackend[1].service[1].name,
          port |-> PortDefFromServiceBackendPort(r.defaultBackend[1].service[1].port)]
    ELSE [name |-> r.defaultBackend[1].serviceName,
          port |-> PortDefFromIntStr(r.defaultBackend[1].servicePort)]

DefaultEntries == SelectSeq(emitted, LAMBDA e : e.default)

-----------------------------------------------------------------------------
(* The claims.                                                             *)

\* C1: determinism. For a fixed snapshot list and naming-mode flag a second
\* call of the same normalizer returns the fragment the first call
\* returned, the order of the routes in each service and of the header
\* entries of the request-transformer plugin included.
C1_Determinism ==
    (pc = "done" /\ prev # <<>>) => services = prev[1].services

\* C2: default-backend precedence. When fromIngressV1 or fromIngressV1beta1
\* returns for a list in which some resource declares a default backend,
\* the fragment holds exactly one default-backend route; it is named
\* namespace.name of the resource created earliest (the first in the input
\* list among equals), has the path "/" and no host, and sits in a service
\* with that resource's default backend; nothing else in the fragment stems
\* from a default backend.
C2_DefaultBackendPrecedence ==
    (kind \in DefaultKinds /\ pc = "done" /\ \E p \in DOMAIN snapshot : HasDefault(snapshot[p]))
    => LET w == snapshot[EarliestDefault(snapshot)]
           d == DefaultEntries
       IN /\ Len(d) = 1
          /\ d[1].namespace = w.namespace /\ d[1].name = w.name
          /\ d[1].route = w.namespace \o "." \o w.name
          /\ FragmentIsEmitted
          /\ LET svc == services[d[1].service]
                 r == svc.routes[Len(svc.routes)]
             IN /\ r.name = d[1].route
                /\ r.paths = <<"/">>
                /\ r.hosts = <<>>
                /\ r.ingress = FromK8sObject(w)
                /\ svc.namespace = w.namespace
                /\ svc.backend = DeclaredDefault(kind, w)

\* C2 witness: a returned call on a list whose second resource declares a
\* default backend and is older than the first, which declares one too.
C2_Witness ==
    /\ kind \in DefaultKinds /\ pc = "done"
    /\ Len(snapshot) >= 2
    /\ HasDefault(snapshot[1]) /\ HasDefault(snapshot[2])
    /\ snapshot[2].creationTimestamp < snapshot[1].creationTimestamp
    /\ Len(DefaultEntries) = 1

\* C3: single service per backend and port. In a returned fragment all
\* routes that target the same (namespace, backend service name, port) sit
\* in one service under one key; in fromIngressV1 this includes the
\* default-backend route and a rule-path route with the same service name
\* and port.
C3_SingleServicePerBackend ==
    pc = "done" =>
        \A x, y \in DOMAIN emitted :
            emitted[x].backend = emitted[y].backend
                => emitted[x].service = emitted[y].service

\* C4: route-name uniqueness in sequential mode. With hashedRouteNames =
\* FALSE no two routes of a returned fragment have the same name, the
\* default-backend route included.
C4_SequentialNamesUnique ==
    (pc = "done" /\ ~hashedRouteNames) =>
        \A x, y \in DOMAIN emitted :
            x # y => emitted[x].route # emitted[y].route

\* the bijections of the set S onto itself, as index maps of a reordering
Bijections(S) == {f \in [S -> S] : \A x, y \in S : f[x] = f[y] => x = y}

\* the resource r with its rules in another order
RuleOrders(r) ==
    { [r EXCEPT !.rules = [x \in DOMAIN r.rules |-> r.rules[f[x]]]] :
        f \in Bijections(DOMAIN r.rules) }

\* the resource r with the paths of one of its rules in another order
PathOrders(kd, r) ==
    IF kd \notin HTTPKinds THEN {r}
    ELSE {r} \cup UNION {
        { [r EXCEPT !.rules[x].http =
              Some([y \in DOMAIN r.rules[x].http[1] |-> r.rules[x].http[1][f[y]]])] :
            f \in Bijections(DOMAIN r.rules[x].http[1]) } :
        x \in {z \in DOMAIN r.rules : r.rules[z].http # Nil} }

Reorderings(kd, r) == RuleOrders(r) \cup PathOrders(kd, r)

\* the rule at 1-based index ri of resource r cut down to its path pj: what
\* the code calls uniqueRule (an L4 rule is taken whole)
Isolated(kd, r, ri, pj) ==
    IF kd \in HTTPKinds
    THEN [r.rules[ri] EXCEPT !.http = Some(<<r.rules[ri].http[1][pj]>>)]
    ELSE r.rules[ri]

\* the content hash of that rule-path
IdOf(kd, r, ri, pj) ==
    LET rule == r.rules[ri] IN
    getUniqIDForRouteConfig(
        IF kd = "v1" THEN ContentV1(rule, rule.http[1][pj])
        ELSE IF kd = "v1beta1" THEN ContentV1beta1(rule, rule.http[1][pj])
        ELSE IF kd = "knative" THEN ContentKnative(rule, rule.http[1][pj])
        ELSE IF kd = "tcp" THEN ContentTCP(rule)
        ELSE ContentUDP(rule))

\* the positions (1-based) of the rule-paths of resource r
RulePaths(kd, r) ==
    IF kd \in HTTPKinds
    THEN UNION { {<<x, y>> : y \in DOMAIN r.rules[x].http[1]} :
                 x \in {z \in DOMAIN r.rules : r.rules[z].http # Nil} }
    ELSE {<<x, 1>> : x \in DOMAIN r.rules}

\* no two rule-paths of resource r have the same content hash
DistinctIds(kd, r) ==
    \A a, b \in RulePaths(kd, r) :
        a # b => IdOf(kd, r, a[1], a[2]) # IdOf(kd, r, b[1], b[2])

\* the rule-path routes of the call that ended in state s: which resource,
\* which isolated rule, which name
NamedRules(kd, s) ==
    { <<s.emitted[x].name,
        Isolated(kd, s.list[s.emitted[x].k], s.emitted[x].i + 1, s.emitted[x].j + 1),
        s.emitted[x].route>> :
      x \in {y \in DOMAIN s.emitted : ~s.emitted[y].default} }

\* reordering the rules, or the paths of a rule, of the p-th resource of
\* the list: the call ends the same way and, when it returns, every
\* rule-path of the list has the route name it had
StableUnderReorder(p) ==
    \A r2 \in Reorderings(kind, ingressList[p]) :
        LET s2 == Run(kind, Entry([ingressList EXCEPT ![p] = r2]), TRUE)
        IN /\ s2.pc = pc
           /\ pc = "done" => NamedRules(kind, s2) = NamedRules(kind, State)

\* C5: stable naming under reorder, as claimed. With hashedRouteNames =
\* TRUE, permuting the rules of a resource, or the paths inside a rule,
\* leaves the set of its route names unchanged and each rule-path keeps its
\* name, for every rule list.
C5_StableUnderReorder ==
    (pc \in {"done", "panic"} /\ hashedRouteNames) =>
        \A p \in DOMAIN ingressList : StableUnderReorder(p)

\* C5, amended: the same for every resource in which no two rule-paths
\* have the same content hash.
C5_StableUnderReorderDistinct ==
    (pc \in {"done", "panic"} /\ hashedRouteNames) =>
        \A p \in DOMAIN ingressList :
            DistinctIds(kind, ingressList[p]) => StableUnderReorder(p)

\* C5 witness: a returned call in hashed mode on a resource with two rules
\* of different content hash that both got a route.
C5_Witness ==
    /\ pc = "done" /\ hashedRouteNames
    /\ Len(ingressList) = 1 /\ Len(ingressList[1].rules) >= 2
    /\ DistinctIds(kind, ingressList[1])
    /\ \E x, y \in DOMAIN emitted :
          ~emitted[x].default /\ ~emitted[y].default /\ emitted[x].i # emitted[y].i

RECURSIVE Flatten(_)
Flatten(seqs) == IF seqs = <<>> THEN <<>> ELSE Head(seqs) \o Flatten(Tail(seqs))

\* the rule-paths of the list in the order the loops visit them, as
\* <<resource position, rule index, path index>> (an L4 rule: path index 0)
PathPositions(kd, list) ==
    Flatten([kk \in DOMAIN list |->
        Flatten([x \in DOMAIN list[kk].rules |->
            IF kd \notin HTTPKinds THEN << <<kk, x - 1, 0>> >>
            ELSE IF list[kk].rules[x].http = Nil THEN <<>>
            ELSE [y \in DOMAIN list[kk].rules[x].http[1] |-> <<kk, x - 1, y - 1>>]])])

\* the rule-path routes of the fragment, in the order they were appended
RulePathEntries == SelectSeq(emitted, LAMBDA e : ~e.default)

EmittedPositions ==
    [x \in DOMAIN RulePathEntries |->
        <<RulePathEntries[x].k, RulePathEntries[x].i, RulePathEntries[x].j>>]

\* the rule, and the rule-path, at a position of the list being processed
RuleAt(pos) == ingressList[pos[1]].rules[pos[2] + 1]
RulePathAt(pos) == RuleAt(pos).http[1][pos[3] + 1]

\* the content hash of the rule-path an entry of the fragment stems from
EntryId(e) == IdOf(kind, ingressList[e.k], e.i + 1, e.j + 1)

KindPrefix(kd) ==
    IF kd = "v1" THEN IngressV1RoutePrefix
    ELSE IF kd = "v1beta1" THEN IngressV1Beta1RoutePrefix
    ELSE IF kd = "tcp" THEN TCPIngressV1Beta1RoutePrefix
    ELSE IF kd = "udp" THEN UDPIngressV1Beta1RoutePrefix
    ELSE KnativeIngressV1Alpha1RoutePrefix

\* the content-stable name of an entry with the collision suffix
SuffixedName(e) ==
    RoutePrefix(KindPrefix(kind), ingressList[e.k]) \o EntryId(e)
        \o (IF kind \in HTTPKinds THEN "-" \o ToString(e.i) \o "-" \o ToString(e.j)
            ELSE "-" \o ToString(e.i))

\* of two routes of equal content hash, the later one has the suffix
LaterIsSuffixed(x, y) ==
    (x < y /\ EntryId(emitted[x]) = EntryId(emitted[y]))
        => /\ emitted[y].route = SuffixedName(emitted[y])
           /\ emitted[x].route # emitted[y].route

\* C6: collision suffixing. With hashedRouteNames = TRUE, of two rule-paths
\* of one call with the same content hash, in the same resource or in
\* different ones, the later one is named with the suffix and the two names
\* differ; all route names of the fragment are pairwise distinct; a second
\* call on the same input yields the same names.
C6_CollisionSuffixing ==
    (pc = "done" /\ hashedRouteNames) =>
        /\ \A x, y \in {z \in DOMAIN emitted : ~emitted[z].default} : LaterIsSuffixed(x, y)
        /\ \A x, y \in DOMAIN emitted : x # y => emitted[x].route # emitted[y].route
        /\ prev # <<>> => EntryNames(emitted) = EntryNames(prev[1].emitted)

\* C7: no pass-wide abort. No call ends in a panic, whatever the list: a
\* v1 backend without service reference included.
C7_NoAbort == pc # "panic"

\* a rule of a TCP or UDP resource that passes the three checks
ValidL4(rule) ==
    /\ IsValidPort(rule.port)
    /\ rule.backend.serviceName # ""
    /\ IsValidPort(rule.backend.servicePort)

\* C8: validation skip, not abort. A returned call of fromTCPIngressV1beta1
\* or fromUDPIngressV1beta1 has emitted one route for exactly the rules with
\* a valid listen port, a non-empty backend service name and a valid
\* backend port, in the order of the rules, every route is in the service
\* of its rule and no other service exists.
C8_ValidationSkipL4 ==
    (kind \in {"tcp", "udp"} /\ pc = "done") =>
        /\ EmittedPositions =
              SelectSeq(PathPositions(kind, ingressList), LAMBDA pos : ValidL4(RuleAt(pos)))
        /\ FragmentIsEmitted

\* C8 witness: a returned L4 call on a resource in which an invalid rule
\* precedes a rule that got its route, with a later resource that got one
\* too.
C8_Witness ==
    /\ kind \in {"tcp", "udp"} /\ pc = "done"
    /\ \E x \in DOMAIN emitted :
          \E b \in DOMAIN ingressList[emitted[x].k].rules :
              /\ b - 1 < emitted[x].i
              /\ ~ValidL4(ingressList[emitted[x].k].rules[b])
    /\ \E x, y \in DOMAIN emitted : emitted[x].k < emitted[y].k

\* a rule-path of an HTTP ingress that is to get a route: no "//" in its
\* path and, in fromIngressV1, a path type pathsFromK8s knows
EligibleHTTP(kd, rulePath) ==
    /\ ~ContainsDoubleSlash(rulePath.path)
    /\ kd = "v1" =>
          ~pathsFromK8s(rulePath.path,
               IF rulePath.pathType = Nil THEN "ImplementationSpecific"
               ELSE rulePath.pathType[1]).err

\* C9: doubled-separator rejection. In fromIngressV1 and fromIngressV1beta1
\* no route stems from a rule-path whose path contains "//", no service
\* exists but those of the emitted routes, pathsFromK8s is never handed such
\* a path, and a returned call has emitted, in order, the route of every
\* other rule-path.
C9_DoubleSlashRejected ==
    kind \in {"v1", "v1beta1"} =>
        /\ \A x \in DOMAIN RulePathEntries :
              ~ContainsDoubleSlash(RulePathAt(EmittedPositions[x]).path)
        /\ \A path \in translated : ~ContainsDoubleSlash(path)
        /\ FragmentIsEmitted
        /\ pc = "done" =>
              EmittedPositions =
                  SelectSeq(PathPositions(kind, ingressList),
                            LAMBDA pos : EligibleHTTP(kind, RulePathAt(pos)))

\* C9 witness: a returned call in which a path with "//" is followed, in the
\* same rule, by a path that got its route.
C9_Witness ==
    /\ kind \in {"v1", "v1beta1"} /\ pc = "done"
    /\ \E x \in DOMAIN RulePathEntries :
          LET pos == EmittedPositions[x] IN
          \E y \in 1..pos[3] : ContainsDoubleSlash(RuleAt(pos).http[1][y].path)

\* C10: malformed-path skip in fromKnativeIngress. No route of the fragment
\* stems from a rule-path whose path contains "//".
C10_KnativeDoubleSlashSkipped ==
    kind = "knative" =>
        \A x \in DOMAIN RulePathEntries :
            ~ContainsDoubleSlash(RulePathAt(EmittedPositions[x]).path)

\* C11: empty backend names never reach the fragment. No service of the
\* fragment of any normalizer has an empty backend service name, and no
\* route stems from a rule whose backend service name is empty.
C11_NoEmptyBackendName ==
    /\ \A key \in DOMAIN services : services[key].backend.name # ""
    /\ \A x \in DOMAIN emitted : emitted[x].backend.name # ""

-----------------------------------------------------------------------------
(* The helpers pathsFromK8s and knativeSelectSplit called on their own.    *)

\* no normalizer is called
NoCall ==
    /\ kind = "" /\ hashedRouteNames = FALSE
    /\ ingressList = <<>> /\ snapshot = <<>> /\ prev = <<>>
    /\ pc = "idle" /\ k = 1 /\ i = 1 /\ j = 1
    /\ services = <<>> /\ secretNameToSNIs = <<>>
    /\ usedRouteNames = {} /\ allDefaultBackends = <<>>
    /\ translated = {} /\ emitted = <<>>

\* the sequences over the set S of length up to n
SeqsUpTo(S, n) == UNION {[1..m -> S] : m \in 0..n}

\* the paths and path types pathsFromK8s is called with
PathArgs ==
    [path : SeqsUpTo({"/", "a"}, MaxPathLen),
     pathType : {"Exact", "Prefix", "ImplementationSpecific", "Bogus"}]

\* the split lists knativeSelectSplit is called with
SplitArgs ==
    [splits : SeqsUpTo({Split("A", 20, NoHeaders), Split("B", 70, NoHeaders),
                        Split("C", 10, NoHeaders), Split("A", 50, NoHeaders),
                        Split("B", 50, NoHeaders)}, MaxSplits)]

InitFn ==
    /\ NoCall /\ NoMerge /\ NoReconciler
    /\ fn \in {"pathsFromK8s", "knativeSelectSplit"}
    /\ arg \in IF fn = "pathsFromK8s" THEN PathArgs ELSE SplitArgs
    /\ ret = Nil

CallPathsFromK8s ==
    /\ fn = "pathsFromK8s" /\ ret = Nil
    /\ ret' = Some(pathsFromK8s(arg.path, arg.pathType))
    /\ UNCHANGED <<kind, hashedRouteNames, ingressList, pc, k, i, j, services,
                   secretNameToSNIs, usedRouteNames, allDefaultBackends, translated, emitted,
                   snapshot, prev, fn, arg, fragments, pending, merged, Cluster>>

CallKnativeSelectSplit ==
    /\ fn = "knativeSelectSplit" /\ ret = Nil
    /\ ret' = Some(knativeSelectSplit(arg.splits))
    /\ UNCHANGED <<kind, hashedRouteNames, ingressList, pc, k, i, j, services,
                   secretNameToSNIs, usedRouteNames, allDefaultBackends, translated, emitted,
                   snapshot, prev, fn, arg, fragments, pending, merged, Cluster>>

NextFn == CallPathsFromK8s \/ CallKnativeSelectSplit

SpecFn == InitFn /\ [][NextFn]_vars

\* the path without its first character when that is "/"
DropLeading(path) == IF path # <<>> /\ Head(path) = "/" THEN Tail(path) ELSE path

\* the path without its last character when that is "/"
DropTrailing(path) ==
    IF path # <<>> /\ path[Len(path)] = "/" THEN SubSeq(path, 1, Len(path) - 1) ELSE path

\* the patterns the table gives for a path without "//"
TablePatterns(path, pathType) ==
    IF pathType = "Prefix" THEN
        LET base == StrOf(DropTrailing(DropLeading(path))) IN
        IF base = "" THEN <<"/">> ELSE <<"/" \o base \o "$", "/" \o base \o "/">>
    ELSE IF pathType = "Exact" THEN <<"/" \o StrOf(DropLeading(path)) \o "$">>
    ELSE IF path = <<>> THEN <<"/">> ELSE <<StrOf(path)>>

\* C12: path translation table. For every path without "//" and each of the
\* three path types pathsFromK8s returns, without error, the patterns of the
\* table: Prefix gives "/" for a path that is empty once trimmed and else
\* the base with "$" and the base with "/", Exact the path with "$",
\* ImplementationSpecific the path itself, or "/" for the empty path.
C12_PathTable ==
    (fn = "pathsFromK8s" /\ ret # Nil /\ arg.pathType # "Bogus"
        /\ ~ContainsDoubleSlash(arg.path))
    => /\ ~ret[1].err
       /\ ret[1].paths = TablePatterns(arg.path, arg.pathType)

\* C12 witness: "/a" with Prefix has returned ["/a$", "/a/"].
C12_Witness ==
    /\ fn = "pathsFromK8s" /\ ret # Nil
    /\ arg = [path |-> <<"/", "a">>, pathType |-> "Prefix"]
    /\ ret[1].paths = <<"/a$", "/a/">>

\* C14: traffic-split selection. knativeSelectSplit returns the empty
\* backend for the empty list and otherwise an element of the list that no
\* candidate outweighs, the leftmost of those of the greatest weight (so
\* the sole candidate of a one-element list).
C14_SplitSelection ==
    (fn = "knativeSelectSplit" /\ ret # Nil) =>
        LET splits == arg.splits
            res == ret[1]
        IN IF splits = <<>> THEN res = ZeroSplit
           ELSE \E x \in DOMAIN splits :
                   /\ res = splits[x]
                   /\ \A y \in DOMAIN splits : splits[y].percent <= splits[x].percent
                   /\ \A y \in 1..(x - 1) : splits[y].percent < splits[x].percent

\* C14 witness: (A,50), (B,50) has selected A, the first of the two.
C14_Witness ==
    /\ fn = "knativeSelectSplit" /\ ret # Nil
    /\ arg.splits = <<Split("A", 50, NoHeaders), Split("B", 50, NoHeaders)>>
    /\ ret[1].serviceName = "A"

-----------------------------------------------------------------------------
(* The routes of the fragment with the rule-paths they stem from.          *)

\* the x-th route of the service under `key` was appended for this entry
EntryOfRoute(key, x) == EntriesOf(key)[x]

\* the rule-path an entry of the fragment stems from
SourceOf(e) == RulePathAt(<<e.k, e.i, e.j>>)

\* the priority the ordering Exact > Prefix > ImplementationSpecific asks
\* for; an absent path type counts as ImplementationSpecific
TablePriority(pathType) ==
    IF pathType = Nil THEN 100
    ELSE IF pathType[1] = "Exact" THEN 300
    ELSE IF pathType[1] = "Prefix" THEN 200
    ELSE 100

\* C13: precedence ordering. Every route fromIngressV1 derives from a
\* rule-path has priority 300 for Exact, 200 for Prefix and 100 for
\* ImplementationSpecific or an absent path type.
C13_PrecedenceOrdering ==
    kind = "v1" =>
        /\ FragmentIsEmitted
        /\ \A key \in DOMAIN services :
              \A x \in DOMAIN services[key].routes :
                  LET e == EntryOfRoute(key, x) IN
                  ~e.default =>
                      services[key].routes[x].regexPriority
                          = Some(TablePriority(SourceOf(e).pathType))

\* C13 witness: a returned call of fromIngressV1 with a route of an Exact
\* rule-path and a route of a rule-path without path type.
C13_Witness ==
    /\ kind = "v1" /\ pc = "done"
    /\ \E x, y \in DOMAIN RulePathEntries :
          /\ SourceOf(RulePathEntries[x]).pathType = Some("Exact")
          /\ SourceOf(RulePathEntries[y]).pathType = Nil

-----------------------------------------------------------------------------
(* The merge of the fragments of the normalizers into one service map, by  *)
(* service key (section 4.4 of the specification): a key that exists gets  *)
(* the routes appended and keeps its service-level fields.                 *)

\* the fragment `fragment` merged into the service map ir
MergeFragment(ir, fragment) ==
    [key \in DOMAIN ir \cup DOMAIN fragment |->
        IF key \notin DOMAIN ir THEN fragment[key]
        ELSE IF key \notin DOMAIN fragment THEN ir[key]
        ELSE [ir[key] EXCEPT !.routes = @ \o fragment[key].routes]]

RECURSIVE MergeInOrder(_, _)
\* the fragments of the family fs merged in the order of the kinds in ks
MergeInOrder(fs, ks) ==
    IF ks = <<>> THEN <<>>
    ELSE MergeFragment(MergeInOrder(fs, SubSeq(ks, 1, Len(ks) - 1)), fs[ks[Len(ks)]])

\* the one-resource lists the fragments are taken from
MergeLists(kd) ==
    LET choices == IF kd = "v1" THEN MultiChoicesV1(1)
                   ELSE IF kd = "v1beta1" THEN MultiChoicesV1beta1(1)
                   ELSE IF kd = "tcp" THEN MultiChoicesTCP(1)
                   ELSE IF kd = "udp" THEN MultiChoicesUDP(1)
                   ELSE MultiChoicesKnative(1)
    IN { <<r>> : r \in {x \in choices : x.creationTimestamp = 1 /\ x.rules # <<>>} }

\* the fragment the normalizer of kind kd returns for the list
FragmentOf(kd, list) == Run(kd, Entry(list), FALSE).services

InitMerge ==
    /\ NoCall /\ NoHelper /\ NoReconciler
    /\ \E ks \in {x \in SUBSET Kinds : Cardinality(x) \in {2, 3}} :
          \E lists \in [ks -> UNION {MergeLists(kd) : kd \in ks}] :
              /\ \A kd \in ks : lists[kd] \in MergeLists(kd)
              /\ fragments = [kd \in ks |-> FragmentOf(kd, lists[kd])]
              /\ pending = ks
    /\ merged = <<>>

\* the fragment of one of the kinds still pending is merged
Merge ==
    /\ \E kd \in pending :
          /\ merged' = MergeFragment(merged, fragments[kd])
          /\ pending' = pending \ {kd}
    /\ UNCHANGED <<kind, hashedRouteNames, ingressList, pc, k, i, j, services,
                   secretNameToSNIs, usedRouteNames, allDefaultBackends, translated, emitted,
                   snapshot, prev, fn, arg, ret, fragments, Cluster>>

NextMerge == Merge

SpecMerge == InitMerge /\ [][NextMerge]_vars

\* the kinds of the family fs in one fixed order
FixedOrder(fs) ==
    SelectSeq(<<"v1", "v1beta1", "tcp", "udp", "knative">>, LAMBDA kd : kd \in DOMAIN fs)

\* a service map with the routes of each service as a set
Unordered(ir) == [key \in DOMAIN ir |-> [ir[key] EXCEPT !.routes = Range(@)]]

\* C15: order-insensitivity of merge. Once every fragment is merged, the
\* service map is the one the merge in a fixed order of the kinds yields,
\* whatever order was taken (the order of the routes inside a service left
\* aside), also when two kinds produce the same service key.
C15_MergeOrderInsensitive ==
    (fragments # <<>> /\ pending = {}) =>
        Unordered(merged) = Unordered(MergeInOrder(fragments, FixedOrder(fragments)))

\* C16: input immutability. When a normalizer returns, the caller's list
\* holds the resources it held at the call, in the same order.
C16_InputImmutable == pc = "done" => ingressList = snapshot

\* the sequential name of the path at index pj of the rule at index ri
SequentialName(r, ri, pj) ==
    r.namespace \o "." \o r.name \o "." \o ToString(ri) \o ToString(pj)

\* the paths a route of an HTTP kind is to carry for its rule-path
PathsOfSource(kd, rulePath) ==
    IF kd = "v1"
    THEN pathsFromK8s(rulePath.path,
             IF rulePath.pathType = Nil THEN "ImplementationSpecific"
             ELSE rulePath.pathType[1]).paths
    ELSE IF rulePath.path = <<>> THEN <<"/">> ELSE <<StrOf(rulePath.path)>>

\* the list with the rules a and b of its p-th resource exchanged
RulesExchanged(list, p, a, b) ==
    [list EXCEPT ![p].rules =
        [x \in DOMAIN @ |-> IF x = a THEN @[b] ELSE IF x = b THEN @[a] ELSE @[x]]]

\* the 0-based rule index ri of resource kk once the rules a and b (1-based)
\* of resource p are exchanged
IndexExchanged(kk, ri, p, a, b) ==
    IF kk # p THEN ri
    ELSE IF ri = a - 1 THEN b - 1
    ELSE IF ri = b - 1 THEN a - 1
    ELSE ri

\* C17: sequential naming. With hashedRouteNames = FALSE, the route an
\* HTTP-kind normalizer appends for the path at index j of the rule at index
\* i of a resource carries the paths of that rule-path and is named
\* namespace.name.ij, i and j being positions in the resource; and the call
\* on the list with two rules of a resource exchanged names every rule-path
\* by its new position.
C17_SequentialNaming ==
    (kind \in HTTPKinds /\ ~hashedRouteNames /\ pc = "done") =>
        /\ FragmentIsEmitted
        /\ \A key \in DOMAIN services :
              \A x \in DOMAIN services[key].routes :
                  LET e == EntryOfRoute(key, x)
                      r == services[key].routes[x]
                  IN ~e.default =>
                        /\ r.name = SequentialName(ingressList[e.k], e.i, e.j)
                        /\ r.paths = PathsOfSource(kind, SourceOf(e))
        /\ \A p \in DOMAIN ingressList :
              \A a, b \in DOMAIN ingressList[p].rules :
                  LET s2 == Run(kind, Entry(RulesExchanged(ingressList, p, a, b)), FALSE)
                  IN /\ s2.pc = "done"
                     /\ NamedRules(kind, s2) =
                           { <<RulePathEntries[x].name,
                               Isolated(kind, ingressList[RulePathEntries[x].k],
                                        RulePathEntries[x].i + 1, RulePathEntries[x].j + 1),
                               SequentialName(ingressList[RulePathEntries[x].k],
                                   IndexExchanged(RulePathEntries[x].k, RulePathEntries[x].i,
                                                  p, a, b),
                                   RulePathEntries[x].j)>> :
                             x \in DOMAIN RulePathEntries }

\* C17 witness: a returned call in sequential mode with routes for two
\* rules of different content of one resource, the first of them behind a
\* rule that got no route.
C17_Witness ==
    /\ kind \in HTTPKinds /\ ~hashedRouteNames /\ pc = "done"
    /\ \E x, y \in DOMAIN RulePathEntries :
          /\ RulePathEntries[x].k = RulePathEntries[y].k
          /\ 0 < RulePathEntries[x].i /\ RulePathEntries[x].i < RulePathEntries[y].i
          /\ SourceOf(RulePathEntries[x]) # SourceOf(RulePathEntries[y])
          /\ \A z \in DOMAIN RulePathEntries : RulePathEntries[z].i # 0

\* a v1 rule-path whose path type is none of the three known ones
UnknownPathType(rulePath) ==
    /\ rulePath.pathType # Nil
    /\ rulePath.pathType[1] \notin {"Exact", "Prefix", "ImplementationSpecific"}

\* the rule without its rule-paths of unknown path type
WithoutUnknownRule(rule) ==
    IF rule.http = Nil THEN rule
    ELSE [rule EXCEPT !.http = Some(SelectSeq(rule.http[1], LAMBDA rp : ~UnknownPathType(rp)))]

\* the list without its rule-paths of unknown path type
WithoutUnknown(list) ==
    [p \in DOMAIN list |->
        [list[p] EXCEPT !.rules = [x \in DOMAIN @ |-> WithoutUnknownRule(@[x])]]]

\* a service with the names of its routes blanked
Unnamed(service) ==
    [service EXCEPT !.routes = [x \in DOMAIN @ |-> [@[x] EXCEPT !.name = ""]]]

\* the fragment as the claim compares it: route names count in hashed mode
\* only
ApartFromSequentialNames(frag, hashed) ==
    IF hashed THEN frag ELSE [key \in DOMAIN frag |-> Unnamed(frag[key])]

\* the fragment with every route name blanked
ApartFromNames(frag) == [key \in DOMAIN frag |-> Unnamed(frag[key])]

\* some rule-path of the list passed has an unknown path type
HasUnknown ==
    \E p \in DOMAIN ingressList : \E x \in DOMAIN ingressList[p].rules :
        /\ ingressList[p].rules[x].http # Nil
        /\ \E y \in DOMAIN ingressList[p].rules[x].http[1] :
              UnknownPathType(ingressList[p].rules[x].http[1][y])

\* no route and no service entry comes from a rule-path of unknown type
NoneFromUnknown ==
    \A x \in DOMAIN RulePathEntries : ~UnknownPathType(SourceOf(RulePathEntries[x]))

\* C18 as stated: a call of fromIngressV1 ends as the call on the list
\* without the rule-paths of unknown path type ends, with the same services
\* and routes, the route names left aside in sequential mode only, and no
\* route comes from a rule-path of unknown type.
C18_UnknownPathTypeSkipped ==
    (kind = "v1" /\ pc \in {"done", "panic"}) =>
        LET s2 == Run("v1", Entry(WithoutUnknown(ingressList)), hashedRouteNames)
        IN /\ s2.pc = pc
           /\ NoneFromUnknown
           /\ pc = "done" =>
                 ApartFromSequentialNames(services, hashedRouteNames)
                     = ApartFromSequentialNames(s2.services, hashedRouteNames)

\* the content-stable name of an entry without collision suffix
BaseName(e) == RoutePrefix(KindPrefix(kind), ingressList[e.k]) \o EntryId(e)

\* the hashed names of two calls agree apart from the indices of collision
\* suffixes: the routes of rule-paths correspond in order, each pair is
\* either unsuffixed and equal or suffixed with the indices of its own
\* call, and the default routes are named alike
SameApartFromSuffixIndices(es, fs) ==
    LET e1 == SelectSeq(es, LAMBDA e : ~e.default)
        e2 == SelectSeq(fs, LAMBDA e : ~e.default)
    IN /\ Len(e1) = Len(e2)
       /\ \A x \in DOMAIN e1 :
             \/ /\ e1[x].route = BaseName(e1[x])
                /\ e2[x].route = e1[x].route
             \/ /\ e1[x].route = BaseName(e1[x]) \o "-" \o ToString(e1[x].i)
                                       \o "-" \o ToString(e1[x].j)
                /\ e2[x].route = BaseName(e1[x]) \o "-" \o ToString(e2[x].i)
                                       \o "-" \o ToString(e2[x].j)
       /\ EntryNames(SelectSeq(es, LAMBDA e : e.default))
             = EntryNames(SelectSeq(fs, LAMBDA e : e.default))

\* C18, amended: the same, the route names left aside in sequential mode
\* and compared apart from the indices of their collision suffixes in
\* hashed mode.
C18_UnknownPathTypeSkippedApartFromIndices ==
    (kind = "v1" /\ pc \in {"done", "panic"}) =>
        LET s2 == Run("v1", Entry(WithoutUnknown(ingressList)), hashedRouteNames)
        IN /\ s2.pc = pc
           /\ NoneFromUnknown
           /\ pc = "done" =>
                 /\ ApartFromNames(services) = ApartFromNames(s2.services)
                 /\ hashedRouteNames => SameApartFromSuffixIndices(emitted, s2.emitted)

\* C18 witness: a returned call of fromIngressV1 on a list with a rule-path
\* of unknown path type ahead of a rule-path that got a route.
C18_Witness ==
    /\ kind = "v1" /\ pc = "done" /\ HasUnknown
    /\ \E x \in DOMAIN RulePathEntries :
          LET e == RulePathEntries[x]
          IN \E y \in 0..(e.j - 1) : UnknownPathType(RulePathAt(<<e.k, e.i, y>>))

\* C19: UDP fragment shape. In a call of fromUDPIngressV1beta1 every route
\* has the protocols udp and nothing else, no paths, no hosts, no SNIs and
\* one destination, the listen port of its rule; every service has the
\* protocol udp and a by-number backend port, the backend port of the rule
\* of each of its routes; and the secret bindings stay empty.
C19_UDPFragmentShape ==
    kind = "udp" =>
        /\ secretNameToSNIs = <<>>
        /\ FragmentIsEmitted
        /\ \A key \in DOMAIN services :
              /\ services[key].protocol = "udp"
              /\ services[key].backend.port.mode = "ByNumber"
              /\ \A x \in DOMAIN services[key].routes :
                    LET r == services[key].routes[x]
                        e == EntryOfRoute(key, x)
                        rule == RuleAt(<<e.k, e.i, e.j>>)
                    IN /\ r.protocols = <<"udp">>
                       /\ r.paths = <<>> /\ r.hosts = <<>> /\ r.snis = <<>>
                       /\ r.destinations = <<[port |-> rule.port]>>
                       /\ services[key].backend.port.number = rule.backend.servicePort
                       /\ services[key].port = rule.backend.servicePort

\* C19 witness: a returned call of fromUDPIngressV1beta1 with a service
\* that has routes of two rules with different listen ports.
C19_Witness ==
    /\ kind = "udp" /\ pc = "done"
    /\ \E key \in DOMAIN services :
          \E x, y \in DOMAIN services[key].routes :
              services[key].routes[x].destinations # services[key].routes[y].destinations

\* the rule-path has header metadata: AppendHeaders of its selected split
\* or of the rule-path itself
HasHeaders(rulePath) ==
    \/ DOMAIN knativeSelectSplit(rulePath.splits).appendHeaders # {}
    \/ DOMAIN rulePath.appendHeaders # {}

\* C20: header-injection plugin. In the fragment of a returned call of
\* fromKnativeIngress a service has a request-transformer plugin if and
\* only if one of the rule-paths routed to it has header metadata.
C20_HeaderPlugin ==
    (kind = "knative" /\ pc = "done") =>
        \A key \in DOMAIN services :
            (\E x \in DOMAIN services[key].plugins :
                 services[key].plugins[x].name = "request-transformer")
            <=> (\E x \in DOMAIN services[key].routes : HasHeaders(SourceOf(EntryOfRoute(key, x))))

\* the service without its routes
ServiceLevel(service) == [service EXCEPT !.routes = <<>>]

\* the sequence q is the sequence p with one element appended
OneAppended(p, q) == Len(q) = Len(p) + 1 /\ SubSeq(q, 1, Len(p)) = p

\* a step inside one call keeps every service of the fragment under its
\* key with the service-level fields it had, changes the route list of at
\* most one service, and that one by a single route appended at the end
ServicesKept ==
    pc \in {"ingress", "rules", "default"} =>
        /\ \A key \in DOMAIN services :
              /\ key \in DOMAIN services'
              /\ ServiceLevel(services'[key]) = ServiceLevel(services[key])
              /\ \/ services'[key].routes = services[key].routes
                 \/ /\ OneAppended(services[key].routes, services'[key].routes)
                    /\ \A other \in DOMAIN services' \ {key} :
                          /\ other \in DOMAIN services
                          /\ services'[other] = services[other]
        /\ Cardinality(DOMAIN services' \ DOMAIN services) <= 1

\* C21: append leaves the service untouched. Inside one call, a rule that
\* targets a key the fragment already has appends one route to that
\* service and changes nothing else of it, nor any other service.
C21_AppendLeavesService == [][ServicesKept]_vars

\* C21 witness: a returned call with two services, one of them with the
\* routes of two rules, the other one created in between.
C21_Witness ==
    /\ pc = "done"
    /\ \E key, other \in DOMAIN services :
          /\ key # other
          /\ Len(services[key].routes) >= 2
          /\ \E x, y, z \in DOMAIN emitted :
                /\ x < y /\ y < z
                /\ emitted[x].service = key /\ emitted[z].service = key
                /\ emitted[y].service = other

\* where in the list the caller passed the resource of an entry stands
InputIndex(e) == CHOOSE p \in DOMAIN snapshot : snapshot[p] = ingressList[e.k]

\* the source of the entry e is processed ahead of the source of f: by
\* creation time, then by place in the caller's list, then by rule index,
\* then by path index
ProcessedAhead(e, f) ==
    LET te == ingressList[e.k].creationTimestamp
        tf == ingressList[f.k].creationTimestamp
    IN \/ te < tf
       \/ te = tf /\ InputIndex(e) < InputIndex(f)
       \/ e.k = f.k /\ e.i < f.i
       \/ e.k = f.k /\ e.i = f.i /\ e.j < f.j

\* C22: route order inside a service. In the fragment of a returned call
\* the routes of each service stand in the processing order of their
\* sources: creation time ascending, equal times in the order of the
\* caller's list, then rule index, then path index; a default-backend
\* route is the last route of its service.
C22_RouteOrder ==
    pc = "done" =>
        /\ FragmentIsEmitted
        /\ \A key \in DOMAIN services :
              \A x, y \in DOMAIN services[key].routes :
                  x < y =>
                      /\ ~EntryOfRoute(key, x).default
                      /\ ~EntryOfRoute(key, y).default
                            => ProcessedAhead(EntryOfRoute(key, x), EntryOfRoute(key, y))

\* C22 witness: a returned call on a list the caller passed youngest
\* first, with a service that has routes of both resources.
C22_Witness ==
    /\ pc = "done"
    /\ \E key \in DOMAIN services :
          \E x, y \in DOMAIN services[key].routes :
              LET e == EntryOfRoute(key, x)
                  f == EntryOfRoute(key, y)
              IN /\ x < y /\ ~e.default /\ ~f.default
                 /\ e.k # f.k
                 /\ InputIndex(e) > InputIndex(f)

RECURSIVE Core(_)
\* the path without any of its leading and trailing "/"
Core(path) ==
    IF DropLeading(path) # path THEN Core(DropLeading(path))
    ELSE IF DropTrailing(path) # path THEN Core(DropTrailing(path))
    ELSE path

\* the strings that start with "/": "/", a run of "/" and "a", and an end
SlashFirst ==
    { "/" \o StrOf(q) \o t : q \in SeqsUpTo({"/", "a"}, MaxPathLen), t \in {"", "$", "/"} }

\* C23: prefix normalisation. For the path type Prefix, pathsFromK8s gives
\* every path that differs from the one it was called with only in the
\* number of leading and trailing "/" the patterns it returned, and each
\* of these starts with "/"; for the path type Exact and a path that has a
\* character other than "/", the path with one more "/" at its end gives
\* other patterns.
C23_PrefixNormalisation ==
    (fn = "pathsFromK8s" /\ ret # Nil) =>
        /\ arg.pathType = "Prefix" =>
              /\ \A other \in SeqsUpTo({"/", "a"}, MaxPathLen) :
                    Core(other) = Core(arg.path)
                        => pathsFromK8s(other, "Prefix") = ret[1]
              /\ \A x \in DOMAIN ret[1].paths : ret[1].paths[x] \in SlashFirst
        /\ (arg.pathType = "Exact" /\ Core(arg.path) # <<>>) =>
              pathsFromK8s(Append(arg.path, "/"), "Exact").paths # ret[1].paths

\* C23 witness: "a/" with Prefix has returned ["/a$", "/a/"], as "/a" does.
C23_Witness ==
    /\ fn = "pathsFromK8s" /\ ret # Nil
    /\ arg = [path |-> <<"a", "/">>, pathType |-> "Prefix"]
    /\ ret[1].paths = <<"/a$", "/a/">>
    /\ pathsFromK8s(<<"/", "a">>, "Prefix") = ret[1]

\* every service of the fragment has a route and is stored under its name
ServicesRouted ==
    \A key \in DOMAIN services :
        /\ services[key].name = key
        /\ Len(services[key].routes) >= 1

\* a step that adds a service adds it with one route, its first
CreatedWithRoute ==
    \A key \in DOMAIN services' \ DOMAIN services : Len(services'[key].routes) = 1

\* C24: no route-less service. At every point of a call, and so in the
\* fragment returned, every service has at least one route and is stored
\* under the key equal to its name, and a step that creates a service
\* creates it with its first route.
C24_NoRouteLessService == [](kind # "" => ServicesRouted) /\ [][CreatedWithRoute]_vars

\* C24 witness: a returned call of a kind with default backends whose
\* fragment has a service of the default backend and a service of a rule,
\* each with one route.
C24_Witness ==
    /\ kind \in DefaultKinds /\ pc = "done"
    /\ \E x, y \in DOMAIN emitted :
          /\ emitted[x].default /\ ~emitted[y].default
          /\ emitted[x].service # emitted[y].service
          /\ Len(services[emitted[x].service].routes) = 1
          /\ Len(services[emitted[y].service].routes) = 1

\* the list with the rule-path at the position pos made invalid in place: a
\* path with "//" for the HTTP kinds, the listen port 0 for TCP and UDP
Invalidated(kd, list, pos) ==
    IF kd \in HTTPKinds
    THEN [list EXCEPT ![pos[1]].rules[pos[2] + 1].http[1][pos[3] + 1].path = <<"/", "/">> \o @]
    ELSE [list EXCEPT ![pos[1]].rules[pos[2] + 1].port = 0]

\* the sequence q without its x-th element
Without(q, x) == SubSeq(q, 1, x - 1) \o SubSeq(q, x + 1, Len(q))

\* the routes of the service `key` without the route of the x-th entry of
\* the call
RoutesWithout(key, x) ==
    IF emitted[x].service # key THEN services[key].routes
    ELSE Without(services[key].routes,
                 Cardinality({z \in 1..x : emitted[z].service = key}))

\* the call on the list with the source of the x-th entry made invalid has
\* appended what this call has appended but the x-th entry, with the same
\* names and to the same services, and each service holds the same routes
\* but that one
OnlyRouteRemoved(x) ==
    LET e == emitted[x]
        s2 == Run(kind, Entry(Invalidated(kind, ingressList, <<e.k, e.i, e.j>>)), FALSE)
    IN /\ s2.pc = "done"
       /\ s2.emitted = Without(emitted, x)
       /\ DOMAIN s2.services = {key \in DOMAIN services : RoutesWithout(key, x) # <<>>}
       /\ \A key \in DOMAIN s2.services :
             s2.services[key].routes = RoutesWithout(key, x)

\* C25: skipped rules keep their index. In sequential mode, making one
\* rule that got a route invalid, in place, removes that route from the
\* fragment and leaves the name, the content and the service of every other
\* route as they were.
C25_SkippedKeepIndex ==
    (pc = "done" /\ ~hashedRouteNames) =>
        \A x \in DOMAIN emitted : ~emitted[x].default => OnlyRouteRemoved(x)

-----------------------------------------------------------------------------
(* The generated reconcilers.  The nine Reconcile functions are one text,  *)
(* each with its own object type and cache store.  One object is watched;  *)
(* a pass is one call of Reconcile for it, taken whole, with the outcome   *)
(* of each call it makes on the client, the cache store and the admin API  *)
(* chosen by the environment.                                              *)

Reconcilers ==
    {"NetV1Ingress", "NetV1Beta1Ingress", "ExtV1Beta1Ingress",
     "KongV1KongIngress", "KongV1KongPlugin", "KongV1KongClusterPlugin",
     "KongV1KongConsumer", "KongV1Alpha1UDPIngress", "KongV1Beta1TCPIngress"}

\* the field of mgrutils.CacheStores a reconciler adds to and deletes from
StoreOf(r) ==
    CASE r = "NetV1Ingress" -> "IngressV1"
      [] r = "NetV1Beta1Ingress" -> "IngressV1beta1"
      [] r = "ExtV1Beta1Ingress" -> "IngressV1beta1"
      [] r = "KongV1KongIngress" -> "KongIngress"
      [] r = "KongV1KongPlugin" -> "Plugin"
      [] r = "KongV1KongClusterPlugin" -> "ClusterPlugin"
      [] r = "KongV1KongConsumer" -> "Consumer"
      [] r = "KongV1Alpha1UDPIngress" -> "UDPIngress"
      [] r = "KongV1Beta1TCPIngress" -> "TCPIngress"

\* an object: whether it carries ctrlutils.KongIngressFinalizer, and its
\* DeletionTimestamp: "zero", or set and "future" or "passed" by the clock
\* of the controller
Object(finalizer, deletion) == [finalizer |-> finalizer, deletion |-> deletion]

\* a call of a pass and how it ended: "ok", "error", or "notfound" for Get
Called(call, outcome) == [call |-> call, outcome |-> outcome]

\* ctrl.Result{Requeue: requeue}, err
Returned(requeue, err) == [requeue |-> requeue, err |-> err]

\* which calls of a pass fail, and what CleanupFinalizer returns as Requeue
Outcomes(mayFail) ==
    [get : {FALSE, mayFail}, delete : {FALSE, mayFail}, admin : {FALSE, mayFail},
     update : {FALSE, mayFail}, add : {FALSE, mayFail}, cleanup : {FALSE, mayFail},
     requeue : BOOLEAN]

\* the pass has made the call, which ended with the outcome
Did(s, call, outcome) == [s EXCEPT !.calls = Append(@, Called(call, outcome))]

\* return ctrl.Result{Requeue: requeue}, err
Return(s, requeue, err) == [s EXCEPT !.result = Some(Returned(requeue, err))]

\* ctrlutils.CleanupFinalizer: declared outside the reconcilers. It takes
\* the finalizer off the object and writes the object back; an object under
\* deletion that has lost its last finalizer is gone from the API server
CleanupFinalizer(s, obj, o) ==
    IF ~obj.finalizer THEN Return(Did(s, "CleanupFinalizer", "ok"), o.requeue, FALSE)
    ELSE IF o.cleanup THEN Return(Did(s, "CleanupFinalizer", "error"), FALSE, TRUE)
    ELSE Return([Did(s, "CleanupFinalizer", "ok") EXCEPT !.object = Nil], o.requeue, FALSE)

\* the branch of a passed deletion timestamp with the finalizer taken off
\* before the admin API is updated
ReconcileDeletedEager(s, store, obj, o) ==
    IF o.delete THEN Return(Did(s, "CacheDelete", "error"), FALSE, TRUE)
    ELSE
    LET s1 == [Did(s, "CacheDelete", "ok") EXCEPT !.cache = @ \ {store}, !.synced = FALSE]
        s2 == CleanupFinalizer(s1, obj, o)
    IN IF s2.result[1].err THEN s2
       ELSE IF o.admin THEN Return(Did(s2, "UpdateKongAdmin", "error"), FALSE, TRUE)
       ELSE [Did(s2, "UpdateKongAdmin", "ok") EXCEPT !.synced = TRUE]

\* the branch of an object whose deletion timestamp has passed
ReconcileDeleted(s, store, obj, o) ==
    IF o.delete THEN Return(Did(s, "CacheDelete", "error"), FALSE, TRUE)
    ELSE
    LET s1 == [Did(s, "CacheDelete", "ok") EXCEPT !.cache = @ \ {store}, !.synced = FALSE] IN
    IF o.admin THEN Return(Did(s1, "UpdateKongAdmin", "error"), FALSE, TRUE)
    ELSE CleanupFinalizer([Did(s1, "UpdateKongAdmin", "ok") EXCEPT !.synced = TRUE], obj, o)

\* the branch of an object without the finalizer
ReconcileUnfinalized(s, obj, o) ==
    IF o.update THEN Return(Did(s, "Update", "error"), FALSE, TRUE)
    ELSE Return([Did(s, "Update", "ok") EXCEPT !.object = Some([obj EXCEPT !.finalizer = TRUE])],
                TRUE, FALSE)

\* the end of Reconcile with the cache add undone when the update of the
\* admin API fails
ReconcileLiveRollback(s, store, o) ==
    IF o.add THEN Return(Did(s, "CacheAdd", "error"), FALSE, TRUE)
    ELSE
    LET s1 == [Did(s, "CacheAdd", "ok") EXCEPT !.cache = @ \cup {store}, !.synced = FALSE] IN
    IF o.admin
    THEN Return([Did(s1, "UpdateKongAdmin", "error") EXCEPT !.cache = s.cache], FALSE, TRUE)
    ELSE Return([Did(s1, "UpdateKongAdmin", "ok") EXCEPT !.synced = TRUE], FALSE, FALSE)

\* the end of Reconcile: the object is cached and the admin API updated
ReconcileLive(s, store, o) ==
    IF o.add THEN Return(Did(s, "CacheAdd", "error"), FALSE, TRUE)
    ELSE
    LET s1 == [Did(s, "CacheAdd", "ok") EXCEPT !.cache = @ \cup {store}, !.synced = FALSE] IN
    IF o.admin THEN Return(Did(s1, "UpdateKongAdmin", "error"), FALSE, TRUE)
    ELSE Return([Did(s1, "UpdateKongAdmin", "ok") EXCEPT !.synced = TRUE], FALSE, FALSE)

\* Reconcile updating the admin API when the object does not exist
ReconcilePassNotFoundPushes(s, store, o) ==
    IF o.get THEN Return(Did(s, "Get", "error"), FALSE, TRUE)
    ELSE IF s.object = Nil
         THEN Return(Did(Did(s, "Get", "notfound"), "UpdateKongAdmin", "ok"), FALSE, FALSE)
    ELSE
    LET obj == s.object[1]
        s1 == [Did(s, "Get", "ok") EXCEPT !.seen = Some(obj)]
    IN IF obj.deletion = "passed" THEN ReconcileDeleted(s1, store, obj, o)
       ELSE IF ~obj.finalizer THEN ReconcileUnfinalized(s1, obj, o)
       ELSE ReconcileLive(s1, store, o)

\* Reconcile without the test for the finalizer
ReconcilePassUnfinalized(s, store, o) ==
    IF o.get THEN Return(Did(s, "Get", "error"), FALSE, TRUE)
    ELSE IF s.object = Nil THEN Return(Did(s, "Get", "notfound"), FALSE, FALSE)
    ELSE
    LET obj == s.object[1]
        s1 == [Did(s, "Get", "ok") EXCEPT !.seen = Some(obj)]
    IN IF obj.deletion = "passed" THEN ReconcileDeleted(s1, store, obj, o)
       ELSE ReconcileLive(s1, store, o)

\* Reconcile, from the state s of object, cache and admin API, with the
\* outcomes o of its calls
ReconcilePass(s, store, o) ==
    IF o.get THEN Return(Did(s, "Get", "error"), FALSE, TRUE)
    ELSE IF s.object = Nil THEN Return(Did(s, "Get", "notfound"), FALSE, FALSE)
    ELSE
    LET obj == s.object[1]
        s1 == [Did(s, "Get", "ok") EXCEPT !.seen = Some(obj)]
    IN IF obj.deletion = "passed" THEN ReconcileDeleted(s1, store, obj, o)
       ELSE IF ~obj.finalizer THEN ReconcileUnfinalized(s1, obj, o)
       ELSE ReconcileLive(s1, store, o)

\* the variables of the translation, idle while a reconciler runs
Translation ==
    <<kind, hashedRouteNames, ingressList, pc, k, i, j, services, secretNameToSNIs,
      usedRouteNames, allDefaultBackends, translated, emitted, snapshot, prev,
      fn, arg, ret, fragments, pending, merged>>

InitReconciler ==
    /\ NoCall /\ NoHelper /\ NoMerge
    /\ reconciler \in Reconcilers
    /\ faulty \in BOOLEAN
    /\ object = Nil /\ cache = {} /\ synced = TRUE /\ queued = FALSE
    /\ seen = Nil /\ calls = <<>> /\ result = Nil

\* the work queue runs one pass for the object. The framework queues the
\* object again when the pass asks for it, when it returns an error, and
\* when the pass has changed the object (a watch event)
Reconcile ==
    /\ queued
    /\ \E o \in Outcomes(faulty) :
          LET s == ReconcilePass([object |-> object, cache |-> cache, synced |-> synced,
                                  seen |-> Nil, calls |-> <<>>, result |-> Nil],
                                 StoreOf(reconciler), o)
          IN /\ object' = s.object
             /\ cache' = s.cache
             /\ synced' = s.synced
             /\ seen' = s.seen
             /\ calls' = s.calls
             /\ result' = s.result
             /\ queued' = (s.result[1].requeue \/ s.result[1].err \/ s.object # object)
    /\ UNCHANGED <<Translation, reconciler, faulty>>

\* a user creates the object, with or without the finalizer
Create ==
    /\ object = Nil
    /\ \E finalizer \in BOOLEAN : object' = Some(Object(finalizer, "zero"))
    /\ queued' = TRUE
    /\ UNCHANGED <<Translation, reconciler, faulty, cache, synced, seen, calls, result>>

\* a user deletes the object: the API server sets the deletion timestamp
\* of an object with a finalizer, and removes an object without
RequestDeletion ==
    /\ object # Nil /\ object[1].deletion = "zero"
    /\ \E deletion \in {"future", "passed"} :
          object' = IF object[1].finalizer THEN Some([object[1] EXCEPT !.deletion = deletion])
                    ELSE Nil
    /\ queued' = TRUE
    /\ UNCHANGED <<Translation, reconciler, faulty, cache, synced, seen, calls, result>>

\* the clock of the controller passes the deletion timestamp: no event
TimePasses ==
    /\ object # Nil /\ object[1].deletion = "future"
    /\ object' = Some([object[1] EXCEPT !.deletion = "passed"])
    /\ UNCHANGED <<Translation, reconciler, faulty, cache, synced, queued, seen, calls, result>>

NextReconciler == Reconcile \/ Create \/ RequestDeletion \/ TimePasses

SpecReconciler == InitReconciler /\ [][NextReconciler]_vars

\* every pass in the work queue is run in the end
SpecReconcilerFair == SpecReconciler /\ WF_vars(Reconcile)

\* the calls cs hold a call of the name `call`
HasCall(cs, call) == \E x \in DOMAIN cs : cs[x].call = call

\* a pass that adds to the cache store has read an object with the
\* finalizer; a pass that has read a live object without the finalizer
\* makes one more call, the write of the object with the finalizer, leaves
\* cache store and admin API alone and is queued again: with Requeue when
\* the write went through, with the error of the write when it did not
FinalizerFirst ==
    /\ HasCall(calls', "CacheAdd") => (object # Nil /\ object[1].finalizer)
    /\ (seen' # Nil /\ ~seen'[1].finalizer /\ seen'[1].deletion = "zero") =>
          /\ Len(calls') = 2 /\ calls'[2].call = "Update"
          /\ cache' = cache /\ synced' = synced
          /\ queued'
          /\ calls'[2].outcome = "ok" =>
                /\ object' = Some(Object(TRUE, "zero"))
                /\ result' = Some(Returned(TRUE, FALSE))
          /\ calls'[2].outcome # "ok" =>
                /\ object' = object
                /\ result' = Some(Returned(FALSE, TRUE))

\* C26: finalizer before cache. In every reconciler an object is added to
\* the cache store only in a pass that read it with the finalizer; a pass
\* that finds a live object without the finalizer writes it back with the
\* finalizer and asks for a requeue, without a cache add or an admin-API
\* update.
C26_FinalizerBeforeCache == [][Reconcile => FinalizerFirst]_vars

\* C26 witness: the latest pass found a live object without the finalizer,
\* wrote it back with the finalizer and returned Requeue.
C26_Witness ==
    /\ seen = Some(Object(FALSE, "zero"))
    /\ calls = <<Called("Get", "ok"), Called("Update", "ok")>>
    /\ result = Some(Returned(TRUE, FALSE))
    /\ object = Some(Object(TRUE, "zero"))
    /\ cache = {}

\* the step takes the finalizer off an object that carried it
FinalizerRemoved ==
    /\ object # Nil /\ object[1].finalizer
    /\ object' = Nil \/ ~object'[1].finalizer

\* the calls of a pass that went through the deletion of the object
DeletionCalls ==
    <<Called("Get", "ok"), Called("CacheDelete", "ok"),
      Called("UpdateKongAdmin", "ok"), Called("CleanupFinalizer", "ok")>>

\* a step that takes the finalizer off is a pass that read the object with
\* a passed deletion timestamp, deleted it from the cache store, updated
\* the admin API and then cleaned up, each without error; a pass on such an
\* object that fails in the cache delete does not call the admin API, and
\* one that fails in either returns an error and leaves the object as it is
DeletionOrdered ==
    /\ FinalizerRemoved =>
          /\ Reconcile
          /\ seen' = Some(Object(TRUE, "passed"))
          /\ calls' = DeletionCalls
          /\ StoreOf(reconciler) \notin cache'
          /\ synced'
    /\ (Reconcile /\ seen' # Nil /\ seen'[1].deletion = "passed") =>
          /\ calls'[2].call = "CacheDelete"
          /\ HasCall(calls', "CleanupFinalizer") =>
                /\ Len(calls') = 4
                /\ \A x \in 1..3 : calls'[x] = DeletionCalls[x]
          /\ calls'[2].outcome = "error" =>
                /\ Len(calls') = 2
                /\ result'[1].err
                /\ object' = object /\ cache' = cache
          /\ (calls'[2].outcome = "ok" /\ calls'[3].outcome = "error") =>
                /\ calls'[3].call = "UpdateKongAdmin"
                /\ Len(calls') = 3
                /\ result'[1].err
                /\ object' = object

\* C27: deletion ordering. For an object whose deletion timestamp is set
\* and has passed the finalizer is removed only after, in the same pass
\* and in this order, the object was deleted from the cache store and the
\* admin-API update returned without error; if the cache delete fails the
\* admin API is not called, and if either fails an error is returned and
\* the finalizer stays on the object.
C27_DeletionOrdering == [][DeletionOrdered]_vars

\* C27 witness: the latest pass deleted the object from the cache store
\* that held it, updated the admin API and took the finalizer off, and the
\* object is gone.
C27_Witness ==
    /\ seen = Some(Object(TRUE, "passed"))
    /\ calls = DeletionCalls
    /\ object = Nil
    /\ cache = {}
    /\ result # Nil /\ ~result[1].err

\* no call of the client, the cache store or the admin API fails, and the
\* object is there without the finalizer and without a deletion timestamp
CreatedUnfinalized == ~faulty /\ object = Some(Object(FALSE, "zero"))

\* the object is in the cache store of its reconciler and the admin API
\* was updated after the cache store last changed
CachedAndPushed == StoreOf(reconciler) \in cache /\ synced

\* the object is gone, or a user has asked for its deletion
DeletionRequested == object = Nil \/ object[1].deletion # "zero"

\* no call fails and the deletion timestamp of the object has passed
DeletionPassed == ~faulty /\ object # Nil /\ object[1].deletion = "passed"

\* the object is out of the cache store and has lost the finalizer
Finalized ==
    /\ StoreOf(reconciler) \notin cache
    /\ object = Nil \/ ~object[1].finalizer

\* (a) of C28, for an object no user deletes in between
ConvergesWhenCreated == CreatedUnfinalized ~> (CachedAndPushed \/ DeletionRequested)

\* (b) of C28
ConvergesWhenDeleted == DeletionPassed ~> Finalized

\* C28: eventual convergence. When every requested and requeued pass runs
\* in the end and no call returns an error, (a) an object created without
\* the finalizer is in the end in the cache store, with an admin-API update
\* after the add, and (b) an object whose deletion timestamp has passed is
\* in the end out of the cache store and without its finalizer.
C28_EventualConvergence == ConvergesWhenCreated /\ ConvergesWhenDeleted

\* a pass whose Get does not return the object makes no other call and
\* leaves the object, the cache store and the admin API as they are; it
\* returns success without requeue when the object does not exist, and the
\* error of Get otherwise. Get of an object that is gone returns no object
GetFailedNoOp ==
    /\ (Reconcile /\ object = Nil) => calls'[1].outcome # "ok"
    /\ (Reconcile /\ calls'[1].outcome # "ok") =>
          /\ calls'[1].call = "Get" /\ Len(calls') = 1
          /\ seen' = Nil
          /\ object' = object /\ cache' = cache /\ synced' = synced
          /\ calls'[1].outcome = "notfound" =>
                /\ result' = Some(Returned(FALSE, FALSE))
                /\ ~queued'
          /\ calls'[1].outcome = "error" => result' = Some(Returned(FALSE, TRUE))

\* C29: not-found is a no-op. When Get reports that the object does not
\* exist Reconcile returns success without requeue and changes nothing: no
\* cache add or delete, no admin-API update, no finalizer write; any other
\* error of Get is returned, also without a call on cache or admin API.
C29_NotFoundNoOp == [][GetFailedNoOp]_vars

\* C29 witness: the latest pass was for an object that is gone; Get
\* reported it, and the pass returned success without requeue.
C29_Witness ==
    /\ object = Nil
    /\ calls = <<Called("Get", "notfound")>>
    /\ result = Some(Returned(FALSE, FALSE))
    /\ ~queued

\* a pass that has read an object with the finalizer whose deletion
\* timestamp has not passed adds it to the cache store; when the add goes
\* through and the update of the admin API fails, the pass returns the
\* error and the object is in the cache store; when the add fails, the
\* pass stops there with the error and the cache store as it was
PushFailureKept ==
    (Reconcile /\ seen' # Nil /\ seen'[1].finalizer /\ seen'[1].deletion # "passed") =>
        /\ calls'[2].call = "CacheAdd"
        /\ calls'[2].outcome = "ok" =>
              /\ Len(calls') = 3 /\ calls'[3].call = "UpdateKongAdmin"
              /\ StoreOf(reconciler) \in cache'
              /\ calls'[3].outcome = "error" =>
                    /\ result' = Some(Returned(FALSE, TRUE))
                    /\ ~synced'
        /\ calls'[2].outcome = "error" =>
              /\ Len(calls') = 2
              /\ ~HasCall(calls', "UpdateKongAdmin")
              /\ result' = Some(Returned(FALSE, TRUE))
              /\ cache' = cache /\ synced' = synced

\* C30: no rollback on push failure. When, for a live object with the
\* finalizer, the cache add succeeds and the following admin-API update
\* fails, Reconcile returns that error and the object stays in the cache
\* store; when the cache add itself fails, the admin API is not called in
\* that pass.
C30_NoRollback == [][PushFailureKept]_vars

\* C30 witness: the latest pass added the live object to the cache store,
\* failed in the update of the admin API and returned the error; the
\* object is in the cache store, ahead of the admin API.
C30_Witness ==
    /\ seen = Some(Object(TRUE, "zero"))
    /\ calls = <<Called("Get", "ok"), Called("CacheAdd", "ok"),
                 Called("UpdateKongAdmin", "error")>>
    /\ result = Some(Returned(FALSE, TRUE))
    /\ StoreOf(reconciler) \in cache
    /\ ~synced

=============================================================================
